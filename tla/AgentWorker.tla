---------------------------- MODULE AgentWorker ----------------------------
(***************************************************************************)
(* cmd/client/main.go: the goroutine runPeerWorker that keeps one tunnel   *)
(* of the agent alive, against the goroutine runAgentLoop that triggers a  *)
(* reconnect when the network changes and stops the worker when its rules  *)
(* change, and the status ticker a connected run leaves behind.            *)
(*                                                                         *)
(* agentPeerSession.trigger is three steps here, since the worker runs     *)
(* between them: it reads tunnelCancel under the lock, offers the reason   *)
(* to the wake channel of capacity one, and calls what it read.  All the   *)
(* reasons the agent loop uses reset the attempt counter.                  *)
(*                                                                         *)
(* A run is what runTunnelOnce does, in module TunnelRun.  It ends in one   *)
(* of three ways:                                                          *)
(*   "cancelled"  runCtx was cancelled while the run waited for the punch  *)
(*   "ingress"    ingress_listen_failed, which is not retried              *)
(*   "other"      every error that is retried                              *)
(***************************************************************************)
EXTENDS TunnelRun

CONSTANTS MaxNAT,      \* bound: network changes
          MaxAttempt   \* bound: attempts are counted up to it

VARIABLES
  worker,        \* where runPeerWorker is
  session,       \* the session's context: "live" or "cancelled"
  run,           \* the current run's context: "none", "live", "cancelled"
  tunnelCancel,  \* the session's cancel function: "nil" or "run"
  connected,     \* the current run has reported p2p or relay
  ended,         \* how the last run ended
  attempt,       \* the backoff counter
  wake,          \* a reason waits in the wake channel
  agent,         \* where runAgentLoop is
  held,          \* what trigger read: "nil", "run", or "old" once that run is over
  nat,           \* natState: how often the network changed
  runNat,        \* the natState the current run was started with
  status,        \* the tunnel state last set by setStatus
  ticker         \* the status ticker: "off", "on"

workerVars == <<worker, run, tunnelCancel, connected, ended, attempt, runNat>>
agentVars == <<session, agent, held, nat>>
vars == <<workerVars, agentVars, wake, status, ticker, tun>>

WorkerSteps == {"top", "starting", "set", "running", "returned", "cleared",
                "down", "backoff", "exited"}
AgentSteps == {"idle", "refreshed", "read", "woken", "stopping", "stopped"}
States == {"none", "connecting", "via", "down", "backoff", "disabled"}

TypeOK == /\ worker \in WorkerSteps /\ session \in {"live", "cancelled"}
          /\ run \in {"none", "live", "cancelled"}
          /\ tunnelCancel \in {"nil", "run"} /\ connected \in BOOLEAN
          /\ ended \in {"none", "cancelled", "ingress", "other"}
          /\ attempt \in 0..MaxAttempt /\ wake \in BOOLEAN
          /\ agent \in AgentSteps /\ held \in {"nil", "run", "old"}
          /\ nat \in 0..MaxNAT /\ runNat \in 0..MaxNAT
          /\ status \in States /\ ticker \in {"off", "on"} /\ tun \in Run

Init == /\ worker = "top" /\ session = "live" /\ run = "none"
        /\ tunnelCancel = "nil" /\ connected = FALSE /\ ended = "none"
        /\ attempt = 0 /\ wake = FALSE /\ agent = "idle" /\ held = "nil"
        /\ nat = 0 /\ runNat = 0 /\ status = "none" /\ ticker = "off"
        /\ tun = Fresh

-----------------------------------------------------------------------------
(* runPeerWorker.                                                           *)

Exit == /\ worker' = "exited" /\ status' = "disabled"
        /\ UNCHANGED <<run, tunnelCancel, connected, ended, attempt, runNat,
                       agentVars, wake, ticker, tun>>

TopExit == worker = "top" /\ session = "cancelled" /\ Exit

Connecting == /\ worker = "top" /\ session = "live"
              /\ worker' = "starting" /\ connected' = FALSE
              /\ status' = "connecting"
              /\ UNCHANGED <<run, tunnelCancel, ended, attempt, runNat,
                             agentVars, wake, ticker, tun>>

SetTunnelCancel == /\ worker = "starting"
                   /\ worker' = "set" /\ tunnelCancel' = "run"
                   /\ run' = session
                   /\ UNCHANGED <<connected, ended, attempt, runNat, agentVars,
                                  wake, status, ticker, tun>>

StartRun == /\ worker = "set"
            /\ worker' = "running" /\ runNat' = nat /\ status' = "connecting"
            /\ UNCHANGED <<run, tunnelCancel, connected, ended, attempt,
                           agentVars, wake, ticker, tun>>

RunConnects == /\ worker = "running"
               /\ OpenDialer \/ ConsumeHandshake
               /\ tun' = Up
               /\ connected' = TRUE /\ attempt' = 0
               /\ status' = "via" /\ ticker' = "on"
               /\ UNCHANGED <<worker, run, tunnelCancel, ended, runNat,
                              agentVars, wake>>

\* The steps of the run that the worker does not see.
Within(step) == /\ worker = "running" /\ step
                /\ UNCHANGED <<workerVars, agentVars, wake, status, ticker>>

Returns(why) == /\ worker = "running"
                /\ worker' = "returned" /\ ended' = why /\ tun' = Fresh
                /\ UNCHANGED <<run, tunnelCancel, connected, attempt, runNat,
                               agentVars, wake, status, ticker>>

CanFail == tun.phase \in {"dial", "open", "hello", "up"}
RunFails == \/ CanFail /\ Returns("other")
            \/ tun.phase = "up" /\ Returns("ingress")
RunCancelled == /\ run = "cancelled"
                /\ \/ CanFail /\ Returns("other")
                   \/ tun.phase = "wait" /\ Returns("cancelled")

ClearTunnelCancel ==
  /\ worker = "returned"
  /\ worker' = "cleared" /\ tunnelCancel' = "nil" /\ run' = "none"
  /\ held' = IF held = "run" THEN "old" ELSE held
  /\ UNCHANGED <<connected, ended, attempt, runNat, session, agent, nat, wake,
                 status, ticker, tun>>

ClearedExit == worker = "cleared" /\ session = "cancelled" /\ Exit

TakeWake == /\ wake
            /\ wake' = FALSE /\ attempt' = 0 /\ worker' = "top"
            /\ UNCHANGED <<run, tunnelCancel, connected, ended, runNat,
                           agentVars, status, ticker, tun>>

Drain == worker = "cleared" /\ session = "live" /\ TakeWake

NextAttempt(n) == IF n < MaxAttempt THEN n + 1 ELSE n

AfterFailure ==
  LET tries == IF connected THEN 0 ELSE attempt
      retry == ended = "other"
  IN  /\ worker = "cleared" /\ session = "live" /\ ~wake
      /\ worker' = IF retry THEN "backoff" ELSE "down"
      /\ status' = worker'
      /\ attempt' = IF retry THEN NextAttempt(tries) ELSE tries
      /\ UNCHANGED <<run, tunnelCancel, connected, ended, runNat, agentVars,
                     wake, ticker, tun>>

Waiting == worker \in {"down", "backoff"}

\* A mutant: a worker that is down only waits for a wake.
WaitExitBackoff == worker = "backoff" /\ session = "cancelled" /\ Exit

WaitExit == Waiting /\ session = "cancelled" /\ Exit
WaitWake == Waiting /\ TakeWake
BackoffOver == /\ worker = "backoff"
               /\ worker' = "top"
               /\ UNCHANGED <<run, tunnelCancel, connected, ended, attempt,
                              runNat, agentVars, wake, status, ticker, tun>>

-----------------------------------------------------------------------------
(* The status ticker of a connected run: it reports while the session is    *)
(* up, and may report once more when its tick races the closing.            *)

TickerReports == /\ ticker = "on"
                 /\ status' = "via" /\ attempt' = 0
                 /\ ticker' = IF worker = "running" /\ connected
                              THEN "on" ELSE "off"
                 /\ UNCHANGED <<worker, run, tunnelCancel, connected, ended,
                                runNat, agentVars, wake, tun>>

TickerStops == /\ ticker = "on" /\ ~(worker = "running" /\ connected)
               /\ ticker' = "off"
               /\ UNCHANGED <<workerVars, agentVars, wake, status, tun>>

-----------------------------------------------------------------------------
(* runAgentLoop.                                                            *)

RefreshNAT == /\ agent = "idle" /\ nat < MaxNAT
              /\ agent' = "refreshed" /\ nat' = nat + 1
              /\ UNCHANGED <<workerVars, session, held, wake, status, ticker, tun>>

TriggerReads == /\ agent = "refreshed"
                /\ agent' = "read" /\ held' = tunnelCancel
                /\ UNCHANGED <<workerVars, session, nat, wake, status, ticker, tun>>

\* A mutant: trigger cancels the run before it offers the reason.
TriggerCancelsFirst == /\ agent = "read"
                       /\ agent' = "woken"
                       /\ run' = IF held = "run" THEN "cancelled" ELSE run
                       /\ UNCHANGED <<worker, tunnelCancel, connected, ended,
                                      attempt, runNat, session, held, nat, wake,
                                      status, ticker, tun>>

TriggerWakes == /\ agent = "read"
                /\ agent' = "woken" /\ wake' = TRUE
                /\ UNCHANGED <<workerVars, session, held, nat, status, ticker, tun>>

\* A mutant: trigger only wakes, it does not cancel the run.
TriggerNoCancel == /\ agent = "woken"
                   /\ agent' = "idle" /\ held' = "nil"
                   /\ UNCHANGED <<workerVars, session, nat, wake, status, ticker, tun>>

TriggerCancels == /\ agent = "woken"
                  /\ agent' = "idle" /\ held' = "nil"
                  /\ run' = IF held = "run" THEN "cancelled" ELSE run
                  /\ UNCHANGED <<worker, tunnelCancel, connected, ended,
                                 attempt, runNat, session, nat, wake, status,
                                 ticker, tun>>

\* syncRules finds the rules removed or changed: it cancels the session and
\* waits for the worker.
Stop == /\ agent = "idle"
        /\ agent' = "stopping" /\ session' = "cancelled"
        /\ run' = IF run = "live" THEN "cancelled" ELSE run
        /\ status' = "disabled"
        /\ UNCHANGED <<worker, tunnelCancel, connected, ended, attempt, runNat,
                       held, nat, wake, ticker, tun>>

Stopped == /\ agent = "stopping" /\ worker = "exited"
           /\ agent' = "stopped"
           /\ UNCHANGED <<workerVars, session, held, nat, wake, status, ticker, tun>>

Done == agent = "stopped" /\ ticker = "off" /\ UNCHANGED vars

-----------------------------------------------------------------------------
WorkerStep == \/ TopExit \/ Connecting \/ SetTunnelCancel \/ StartRun
              \/ RunCancelled \/ ClearTunnelCancel \/ ClearedExit \/ Drain
              \/ AfterFailure \/ WaitExit \/ WaitWake \/ BackoffOver
RunStep == \/ RunConnects \/ RunFails
           \/ \E force \in BOOLEAN : Within(Registered(force))
           \/ Within(OpenListener) \/ Within(Receives) \/ Within(OwnSteps)
TickerStep == TickerReports \/ TickerStops
TriggerStep == TriggerReads \/ TriggerWakes \/ TriggerCancels
AgentStep == RefreshNAT \/ TriggerStep \/ Stop \/ Stopped

Next == WorkerStep \/ RunStep \/ TickerStep \/ AgentStep \/ Done

\* A run may last as long as it likes.  A cancelled one returns, as every
\* wait of runTunnelOnce watches its context or has a deadline; the agent
\* loop finishes a trigger it began; the goroutines of a run go on, and its
\* timer fires.  Nothing is assumed of the messages.
FairSpec == /\ Init /\ [][Next]_vars
            /\ WF_vars(WorkerStep) /\ WF_vars(TriggerStep \/ Stopped)
            /\ WF_vars(TickerStops)
            /\ WF_vars(Within(ForcedRelay \/ PunchDone)) /\ WF_vars(Within(ReceiverSteps))
            /\ WF_vars(Within(RelaySteps)) /\ WF_vars(Within(TimerSteps))

-----------------------------------------------------------------------------
(* Only a local port that cannot be listened on takes a worker down for     *)
(* good: a run that trigger cancelled is never mistaken for a removed rule, *)
(* since the reason is in the channel before the run can return.            *)
DownOnlyForIngress == worker = "down" => ended = "ingress"

(* A network change leads to a run started with the new probe, unless the   *)
(* next change or the end of the session comes first: no wake is lost, also *)
(* not the one that meets a full channel, a worker in backoff or one down.  *)
ChangeReconnects ==
  \A n \in 1..MaxNAT :
    (agent = "refreshed" /\ nat = n)
      ~> (nat > n \/ session = "cancelled"
          \/ (worker = "running" /\ runNat = n))

(* syncRules does not wait for ever: the worker whose session it cancelled  *)
(* exits from wherever it is.                                               *)
StopEnds == (agent = "stopping") ~> (agent = "stopped")

(* A tunnel that goes on as p2p sends to an address the peer was heard      *)
(* from, unless a PeerInfo came after the punch and replaced it.            *)
HeardPath ==
  tun.phase \in {"open", "hello", "up"} /\ ~tun.relay /\ ~tun.late => tun.addr = "heard"

(* Once enterRelay is through, the tunnel sends to the server, and no late  *)
(* punch or PeerInfo turns it away; the one exception is a receiver that    *)
(* had read isRelay just before it was set.                                 *)
RelayPath == tun.enter = "done" /\ ~tun.crossed => tun.addr = "server"

(* A run does not wait for its peer for ever: it is punched or relayed, or  *)
(* it returns, also when nothing is ever heard.                             *)
RunDecides == (worker = "running" /\ tun.phase = "wait") ~> (worker # "running" \/ tun.phase # "wait")
=============================================================================
