-------------------------- MODULE RemoteConnection --------------------------
(***************************************************************************)
(* What a remote connection stands on (connect/connect.go, Open): the      *)
(* tunnel, which for an AWS gateway goes through SSM and for a direct      *)
(* Postgres or MySQL connection with a jump host through SSH, and the      *)
(* database pool above it, to which the tunnel is a link that comes and    *)
(* goes.  The three state machines are three parts of one and never run    *)
(* together.                                                               *)
(***************************************************************************)
EXTENDS Tunnel, SSHTunnel, DatabasePool

VARIABLE part   \* "SSM", "SSH" or "pool"

remoteVars == <<part, vars, sshVars, poolVars>>

RemoteInit == /\ Init /\ SSHInit /\ PoolInit /\ part \in {"SSM", "SSH", "pool"}
              /\ part # "pool" => engine = "postgres"   \* of no matter there

RemoteNext ==
  /\ UNCHANGED part
  /\ \/ part = "SSM" /\ Next /\ UNCHANGED <<sshVars, poolVars>>
     \/ part = "SSH" /\ SSHNext /\ UNCHANGED <<vars, poolVars>>
     \/ part = "pool" /\ PoolNext /\ UNCHANGED <<vars, sshVars>>

\* Fairness, SSHFairness and PoolFairness, each asked of its own part.
RemoteFairness ==
  /\ WF_vars(part = "SSM" /\ Run /\ (pc \in {"session", "up"} => stopped))
  /\ WF_vars(part = "SSM" /\ Goroutine)
  /\ WF_vars(part = "SSM" /\ Callback) /\ WF_vars(part = "SSM" /\ Frame)
  /\ WF_sshVars(part = "SSH" /\ Starting) /\ WF_sshVars(part = "SSH" /\ CloserRuns)
  /\ WF_sshVars(part = "SSH" /\ HandshakeFails /\ client = "dead")
  /\ WF_sshVars(part = "SSH" /\ AcceptEnds /\ ~listening)
  /\ WF_sshVars(part = "SSH" /\ AcceptFails)
  /\ WF_sshVars(part = "SSH" /\ (Tick \/ Ping \/ PingFails))
  /\ \A f \in Forward : /\ WF_sshVars(part = "SSH" /\ (Dial(f) \/ Track(f)))
                        /\ WF_sshVars(part = "SSH" /\ EndPipe(f) /\ f \notin sockets)
  /\ \A s \in Stopper : WF_sshVars(part = "SSH" /\ Stop(s))
  /\ WF_poolVars(part = "pool" /\ ~Hung("worker") /\ Worker)
  /\ WF_poolVars(part = "pool" /\ ~Hung("lister") /\ ListerEnds)
  /\ SF_poolVars(part = "pool" /\ WorkerTakes) /\ SF_poolVars(part = "pool" /\ ListerTakes)

RemoteSpec == RemoteInit /\ [][RemoteNext]_remoteVars /\ RemoteFairness
=============================================================================
