----------------------------- MODULE LeaderJobs -----------------------------
(***************************************************************************)
(* The background jobs of a multi-replica deployment (background_leader.go *)
(* and main.go).  A pod that has a Kubernetes client campaigns for a Lease *)
(* and starts the jobs when it wins it; a pod without a client starts them *)
(* at once.  Half of the jobs take the context that ends with the          *)
(* leadership, the others ("legacy") run until the process exits.          *)
(*                                                                         *)
(* Time is counted in ticks of one RetryPeriod (5 s).  "age" is the time   *)
(* since the Lease was last renewed: a rival measures it from the moment   *)
(* it saw the renewal, so it never takes the Lease earlier than this says. *)
(* A pod's process is assumed to act within the tick in which it is due.   *)
(*                                                                         *)
(* Every pod has LABPLANE_ENABLE_BACKGROUND_JOBS and the leader election    *)
(* switched on, and the setup chooses a Kubernetes cluster; "configured"    *)
(* says that it has been completed.                                         *)
(***************************************************************************)
EXTENDS Naturals, FiniteSets

CONSTANTS
    Pods,
    RetryPeriod, RenewDeadline, LeaseDuration,
    MaxFaults,          \* bound on crashes, SIGTERMs, failed clients and lost API servers
    ClientMayFail,      \* may the client of a pod that has been set up not be made?
    ConfiguredAtBoot    \* may the setup wizard have been completed before the pods start?

ASSUME LeaseAssumption ==
    /\ RetryPeriod \in Nat \ {0}
    /\ RenewDeadline \in Nat
    /\ LeaseDuration \in Nat
    /\ RetryPeriod + RenewDeadline < LeaseDuration
ASSUME BootAssumption ==
    MaxFaults \in Nat /\ ClientMayFail \in BOOLEAN /\ ConfiguredAtBoot \subseteq BOOLEAN
ASSUME PodsAssumption == Pods \cap {"nobody", "dead"} = {}

VARIABLES
    pod,          \* where the process of a pod is in its life
    jobs,         \* what runs in it: none, pending (won, not started), all, legacy
    holder, age,  \* the Lease: its identity and the ticks since its renewal
    reach,        \* the pods that reach the API server
    configured,   \* the wizard has been completed
    faults

vars == <<pod, jobs, holder, age, reach, configured, faults>>

\* "lost": the elector gave up, the process is about to exit.
\* "ending": SIGTERM arrived, the HTTP server is draining its connections.
Life == {"down", "candidate", "leading", "lost", "ending", "single"}
Jobs == {"none", "pending", "all", "legacy"}

TypeOK ==
    /\ pod \in [Pods -> Life]
    /\ jobs \in [Pods -> Jobs]
    /\ holder \in Pods \cup {"nobody", "dead"}
    /\ age \in 0..LeaseDuration
    /\ reach \subseteq Pods
    /\ configured \in BOOLEAN
    /\ faults \in 0..MaxFaults

Init ==
    /\ pod = [p \in Pods |-> "down"]
    /\ jobs = [p \in Pods |-> "none"]
    /\ holder = "nobody" /\ age = 0
    /\ reach = Pods
    /\ configured \in ConfiguredAtBoot
    /\ faults = 0

Set(p, life, work) ==
    /\ pod' = [pod EXCEPT ![p] = life]
    /\ jobs' = [jobs EXCEPT ![p] = work]

Fault == faults < MaxFaults /\ faults' = faults + 1

\* The identity has a random suffix: nobody, not even its pod's next process,
\* can renew the Lease of a process that is gone.
Dies(p) ==
    /\ Set(p, "down", "none")
    /\ holder' = IF holder = p THEN "dead" ELSE holder

(* Start of the process: without a client, because it has not been set up   *)
(* or the client could not be made, the jobs start here and now, and no     *)
(* Lease is ever asked for.                                                 *)
Campaign(p) == configured /\ Set(p, "candidate", "none") /\ UNCHANGED faults
RunUnelected(p) ==
    /\ Set(p, "single", "all")
    /\ \/ ~configured /\ UNCHANGED faults
       \/ configured /\ ClientMayFail /\ Fault

Boot(p) ==
    /\ pod[p] = "down"
    /\ Campaign(p) \/ RunUnelected(p)
    /\ UNCHANGED <<holder, age, reach, configured>>

Setup ==
    /\ ~configured /\ \E p \in Pods : pod[p] # "down"
    /\ configured' = TRUE
    /\ UNCHANGED <<pod, jobs, holder, age, reach, faults>>

LeaseFree == holder = "nobody" \/ age >= LeaseDuration

Acquire(p) ==
    /\ pod[p] = "candidate" /\ p \in reach /\ LeaseFree
    /\ holder' = p /\ age' = 0
    /\ Set(p, "leading", "pending")
    /\ UNCHANGED <<reach, configured, faults>>

Renew(p) ==
    /\ pod[p] = "leading" /\ p \in reach /\ age >= RetryPeriod
    /\ age' = 0
    /\ UNCHANGED <<pod, jobs, holder, reach, configured, faults>>

\* OnStartedLeading runs in a goroutine of its own: it may be scheduled after
\* the leadership has ended, and then starts only what ignores the context.
StartJobs(p) ==
    /\ jobs[p] = "pending"
    /\ jobs' = [jobs EXCEPT ![p] = IF pod[p] = "leading" THEN "all" ELSE "legacy"]
    /\ UNCHANGED <<pod, holder, age, reach, configured, faults>>

Cancelled(p) == pod[p] \in {"lost", "ending"}

StopAware(p) ==
    /\ Cancelled(p) /\ jobs[p] = "all"
    /\ jobs' = [jobs EXCEPT ![p] = "legacy"]
    /\ UNCHANGED <<pod, holder, age, reach, configured, faults>>

\* Mutant: the released Lease keeps a name that no candidate takes for free.
ReleaseUnrecognised(p) ==
    /\ holder = p /\ p \in reach
    /\ holder' = "released"

(* ReleaseOnCancel: the elector clears the Lease when its renew loop ends,  *)
(* if the API server answers.                                               *)
Release(p) ==
    /\ holder = p /\ p \in reach
    /\ holder' = "nobody"

\* A round of renewals starts RetryPeriod after the last success and lasts
\* RenewDeadline.
GiveUpAfter == RetryPeriod + RenewDeadline

GiveUp(p) ==
    /\ pod[p] = "leading" /\ age >= GiveUpAfter
    /\ pod' = [pod EXCEPT ![p] = "lost"]
    /\ Release(p) \/ UNCHANGED holder
    /\ UNCHANGED <<jobs, age, reach, configured, faults>>

\* Mutant: OnStoppedLeading only logs; the legacy jobs live on and the elector
\* is gone.
LostKeepsServing(p) ==
    /\ pod[p] = "lost"
    /\ Set(p, "single", "legacy")
    /\ UNCHANGED <<holder, age, reach, configured, faults>>

\* Mutant: the process that lost the Lease campaigns again beside its old jobs.
LostCampaignsAgain(p) ==
    /\ pod[p] = "lost"
    /\ Set(p, "candidate", "legacy")
    /\ UNCHANGED <<holder, age, reach, configured, faults>>

\* OnStoppedLeading without a SIGTERM: os.Exit(1).
ExitLost(p) ==
    /\ pod[p] = "lost"
    /\ Dies(p)
    /\ UNCHANGED <<age, reach, configured, faults>>

Sigterm(p) ==
    /\ pod[p] \in {"candidate", "leading", "single"}
    /\ Fault
    /\ pod' = [pod EXCEPT ![p] = "ending"]
    /\ UNCHANGED <<jobs, holder, age, reach, configured>>

ReleaseOnCancel(p) ==
    /\ pod[p] = "ending" /\ Release(p)
    /\ UNCHANGED <<pod, jobs, age, reach, configured, faults>>

\* Shutdown of the HTTP server returned, main returns.
ShutdownReturns(p) ==
    /\ pod[p] = "ending"
    /\ Dies(p)
    /\ UNCHANGED <<age, reach, configured, faults>>

Crash(p) ==
    /\ pod[p] # "down" /\ Fault
    /\ Dies(p)
    /\ UNCHANGED <<age, reach, configured>>

CutOff(p) ==
    /\ p \in reach /\ Fault
    /\ reach' = reach \ {p}
    /\ UNCHANGED <<pod, jobs, holder, age, configured>>

Heal(p) ==
    /\ p \notin reach
    /\ reach' = reach \cup {p}
    /\ UNCHANGED <<pod, jobs, holder, age, configured, faults>>

\* What must happen before time may pass.
Due(p) ==
    \/ pod[p] = "lost"
    \/ pod[p] = "leading" /\ p \in reach /\ age >= RetryPeriod
    \/ pod[p] = "leading" /\ age >= GiveUpAfter

Tick ==
    /\ holder # "nobody" /\ age < LeaseDuration
    /\ \A p \in Pods : ~Due(p)
    /\ age' = age + 1
    /\ UNCHANGED <<pod, jobs, holder, reach, configured, faults>>

PodStep(p) ==
    \/ Boot(p) \/ Acquire(p) \/ Renew(p) \/ StartJobs(p) \/ StopAware(p)
    \/ GiveUp(p) \/ ExitLost(p)
    \/ Sigterm(p) \/ ReleaseOnCancel(p) \/ ShutdownReturns(p)
    \/ Crash(p) \/ CutOff(p) \/ Heal(p)

Next == Setup \/ Tick \/ \E p \in Pods : PodStep(p)

Spec == Init /\ [][Next]_vars

\* Kubernetes restarts a pod, client-go retries every RetryPeriod, goroutines
\* run and the server's Shutdown is bounded (30 s).
Fairness ==
    /\ WF_vars(Tick)
    /\ \A p \in Pods :
        /\ WF_vars(Boot(p)) /\ WF_vars(Acquire(p)) /\ WF_vars(Renew(p))
        /\ WF_vars(StartJobs(p)) /\ WF_vars(GiveUp(p)) /\ WF_vars(ExitLost(p))
        /\ WF_vars(ShutdownReturns(p)) /\ WF_vars(Heal(p))

FairSpec == Spec /\ Fairness

-----------------------------------------------------------------------------
\* Jobs with an effect: those of a pod that has not been set up find nothing to do.
Runs(p) == configured /\ jobs[p] \in {"all", "legacy"}

\* The claim of background_leader.go:52: with several replicas only one of
\* them, the holder of the Lease, runs jobs that have side effects.
OnePodRunsJobs == \A p, q \in Pods : Runs(p) /\ Runs(q) => p = q

\* What the timing of the Lease and the exit on a lost Lease do guarantee: two
\* pods run jobs at once only if one of them is on its way out of the process
\* (it lost the Lease or was told to stop) or booted without a client and never
\* campaigned; two pods that were elected never both serve and run jobs.
OverlapOnlyWhileLeaving ==
    \A p, q \in Pods :
        Runs(p) /\ Runs(q) /\ p # q =>
            \E r \in {p, q} : Cancelled(r) \/ pod[r] = "single"

\* Why: a pod that leads is the holder, the holder has given up before the Lease
\* expires unless it is ending, and a pod that waits for the Lease runs nothing.
LeaseInv ==
    \A p \in Pods :
        /\ pod[p] = "leading" => holder = p
        /\ holder = p => pod[p] \in {"leading", "lost", "ending"}
        /\ holder = p /\ pod[p] # "ending" => age <= GiveUpAfter
        /\ jobs[p] # "none" => pod[p] \notin {"down", "candidate"}

\* Once the deployment is set up the jobs run again after every crash, restart
\* and outage: some pod starts the full set of them.
JobsResume == configured ~> \E p \in Pods : jobs[p] = "all"

\* A pod that has lost the Lease stops its jobs before anybody can find the
\* Lease expired: takeover by age never meets a job of the former holder that
\* nobody told to stop.
ExpiryFindsNoJobs ==
    [][\A p, q \in Pods :
        Acquire(p) /\ holder = q => pod[q] = "ending"]_vars
=============================================================================
