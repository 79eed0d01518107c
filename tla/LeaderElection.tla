----------------------------- MODULE LeaderElection -----------------------------
(***************************************************************************)
(* Several processes of the controller with the flag --leader-elect of     *)
(* cmd/main.go, or without it.  Without it each of them reconciles, as in  *)
(* DriftCheckController.  With it a process starts its controller when it  *)
(* has acquired the lease; one that loses the lease gets an error from     *)
(* mgr.Start and exits.  Nothing stops it in between: it may go on with a  *)
(* reconcile, and start others, while its successor is at work.            *)
(***************************************************************************)
EXTENDS DriftCheckProperties

CONSTANTS MaxHandovers,     \* bound: losses of the lease
          ObstaclesMet      \* bound: what evaluations can meet, of Obstacles

ASSUME MaxHandoversIsNat == MaxHandovers \in Nat
ASSUME AbsentIsNoProcess == Absent \notin Replicas
ASSUME ObstaclesAreObstacles == ObstaclesMet \subseteq Obstacles

VARIABLES
    elects,      \* the flag: LeaderElection of the manager's options
    holder,      \* the process that has the lease, or Absent
    role,        \* "standby", "leading", or "deposed": about to exit
    handovers    \* how much of MaxHandovers is used up

leaseVars == <<elects, holder, role, handovers>>

ElectionInit ==
    /\ Init
    /\ elects \in BOOLEAN /\ holder = Absent /\ handovers = 0
    /\ role = [r \in Replicas |-> IF elects THEN "standby" ELSE "leading"]

Runs(r) == role[r] # "standby"

(* The controller of r starts: its initial list enqueues every object. *)
Acquire(r) ==
    /\ elects /\ role[r] = "standby" /\ holder = Absent
    /\ holder' = r
    /\ role' = [role EXCEPT ![r] = "leading"]
    /\ cache' = [cache EXCEPT ![r] = api]
    /\ synced' = synced \cup ({r} \X Checks)
    /\ queue' = [queue EXCEPT ![r] = {c \in Checks : api[c] # Absent}]
    /\ UNCHANGED <<api, timer, worker, fresh, gauge, world, hookVars, spent, elects, handovers>>

(* The lease is not renewed in time, or its holder was cut off or crashed. *)
LoseLease(r) ==
    /\ holder = r /\ handovers < MaxHandovers
    /\ holder' = Absent
    /\ role' = [role EXCEPT ![r] = "deposed"]
    /\ handovers' = handovers + 1
    /\ UNCHANGED <<vars, elects>>

(* Bug: the error of mgr.Start is logged, and the process goes on. *)
Exit_Logged(r) == FALSE /\ UNCHANGED <<vars, leaseVars>>

(* os.Exit, and a new process that waits for the lease; the cache of the   *)
(* old one is gone with it.                                                *)
Exit(r) ==
    /\ role[r] = "deposed"
    /\ role' = [role EXCEPT ![r] = "standby"]
    /\ worker' = [worker EXCEPT ![r] = Idle]
    /\ fresh' = fresh \ {r}
    /\ gauge' = [gauge EXCEPT ![r] = [c \in Checks |-> Absent]]
    /\ cache' = [cache EXCEPT ![r] = [c \in Checks |-> Absent]]
    /\ synced' = synced \ ({r} \X Checks)
    /\ queue' = [queue EXCEPT ![r] = {}]
    /\ timer' = [timer EXCEPT ![r] = [c \in Checks |-> "none"]]
    /\ UNCHANGED <<api, world, hookVars, spent, elects, holder, handovers>>

(* A crash of the holder is LoseLease and Exit; without election Restart   *)
(* of DriftCheckController is it.                                          *)
ElectionNext ==
    \/ \E r \in Replicas : Acquire(r) \/ LoseLease(r) \/ Exit(r)
    \/ /\ \/ \E c \in Checks :
                User(c) \/ (WorldChanges(c) /\ world'[c].obstacle \in ObstaclesMet)
          \/ \E r \in Replicas :
                Runs(r) /\ (Worker(r) \/ \E c \in Checks : Manager(r, c))
       /\ UNCHANGED leaseVars

allVars == <<vars, leaseVars>>

(* What runs goes on, as in DriftCheckController; a free lease is acquired *)
(* and a process that lost it exits.                                       *)
ElectionFairness ==
    /\ \A r \in Replicas :
          /\ WF_allVars(Runs(r) /\ Worker(r) /\ UNCHANGED leaseVars)
          /\ WF_allVars(Acquire(r)) /\ WF_allVars(Exit(r))
    /\ \A r \in Replicas, c \in Checks :
          /\ WF_allVars(Runs(r) /\ Deliver(r, c) /\ UNCHANGED leaseVars)
          /\ WF_allVars(Runs(r) /\ TimerFires(r, c) /\ UNCHANGED leaseVars)
          /\ SF_allVars(Runs(r) /\ (ReconcileGone(r, c) \/ ReconcileExisting(r, c))
                          /\ UNCHANGED leaseVars)

ElectionSpec == ElectionInit /\ [][ElectionNext]_allVars /\ ElectionFairness

(* The inductive invariant that ElectionSpec needs on top of IndInv and    *)
(* HandInv: what Acquire finds.  A process that waits for the lease has    *)
(* nothing of an earlier life of its own, and whoever leads has the lease. *)
LeaseTypeOK ==
    /\ elects \in BOOLEAN
    /\ holder \in Replicas \cup {Absent}
    /\ role \in [Replicas -> {"standby", "leading", "deposed"}]
    /\ handovers \in 0..MaxHandovers

Waiting(r) ==
    /\ worker[r] = Idle /\ queue[r] = {}
    /\ \A c \in Checks : gauge[r][c] = Absent /\ timer[r][c] = "none"

LeaseInv ==
    /\ LeaseTypeOK
    /\ \A r \in Replicas : ~Runs(r) => Waiting(r)
    /\ elects => \A r \in Replicas : role[r] = "leading" <=> holder = r

(* Two processes that reconcile for ever can keep invalidating each        *)
(* other's fingerprint write, and send again each time.  With leader       *)
(* election they do not: after any hand-over, with the old leader still at *)
(* work for a while, the drift that status settles on comes to be          *)
(* acknowledged by every webhook.                                          *)
LeaderNotifies == elects => NotificationConverges

=============================================================================
