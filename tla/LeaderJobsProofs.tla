-------------------------- MODULE LeaderJobsProofs --------------------------
(***************************************************************************)
(* The exclusion of background jobs, for any number of pods and any        *)
(* durations with RetryPeriod + RenewDeadline < LeaseDuration.             *)
(***************************************************************************)
EXTENDS LeaderJobs, TLAPS

IInv == TypeOK /\ LeaseInv

USE LeaseAssumption, BootAssumption, PodsAssumption

\* The initial states satisfy the invariant.
LEMMA InitIInv == Init => IInv
  BY DEF Init, IInv, TypeOK, LeaseInv, Life, Jobs

\* A step of one pod preserves it: only Acquire creates a leader, and it finds
\* the Lease free, which no leader leaves it.
LEMMA PodStepIInv ==
    ASSUME IInv, NEW p \in Pods, PodStep(p)
    PROVE  IInv'
<1> USE DEF IInv, TypeOK, LeaseInv, Life, Jobs, GiveUpAfter, Set
<1>1. CASE Boot(p)
  BY <1>1 DEF Boot, Campaign, RunUnelected, Fault
<1>2. CASE Acquire(p)
  <2>1. \A q \in Pods : pod[q] # "leading"
    BY <1>2 DEF Acquire, LeaseFree
  <2> QED  BY <1>2, <2>1 DEF Acquire
<1>3. CASE Renew(p)
  BY <1>3 DEF Renew
<1>4. CASE StartJobs(p)
  BY <1>4 DEF StartJobs
<1>5. CASE StopAware(p)
  BY <1>5 DEF StopAware, Cancelled
<1>6. CASE GiveUp(p)
  BY <1>6 DEF GiveUp, Release
<1>7. CASE ExitLost(p)
  BY <1>7 DEF ExitLost, Dies
<1>8. CASE Sigterm(p)
  BY <1>8 DEF Sigterm, Fault
<1>9. CASE ReleaseOnCancel(p)
  BY <1>9 DEF ReleaseOnCancel, Release
<1>10. CASE ShutdownReturns(p)
  BY <1>10 DEF ShutdownReturns, Dies
<1>11. CASE Crash(p)
  BY <1>11 DEF Crash, Dies, Fault
<1>12. CASE CutOff(p)
  BY <1>12 DEF CutOff, Fault
<1>13. CASE Heal(p)
  BY <1>13 DEF Heal
<1> QED
  BY <1>1, <1>2, <1>3, <1>4, <1>5, <1>6, <1>7, <1>8, <1>9, <1>10, <1>11, <1>12, <1>13
     DEF PodStep

\* So does the passing of time: a leader that is due acts first.
LEMMA NextIInv == IInv /\ [Next]_vars => IInv'
<1> SUFFICES ASSUME IInv, [Next]_vars PROVE IInv'
  OBVIOUS
<1>1. CASE Setup
  BY <1>1 DEF Setup, IInv, TypeOK, LeaseInv, GiveUpAfter
<1>2. CASE Tick
  BY <1>2 DEF Tick, Due, IInv, TypeOK, LeaseInv, GiveUpAfter
<1>3. CASE \E p \in Pods : PodStep(p)
  BY <1>3, PodStepIInv
<1>4. CASE UNCHANGED vars
  BY <1>4 DEF vars, IInv, TypeOK, LeaseInv, GiveUpAfter
<1> QED
  BY <1>1, <1>2, <1>3, <1>4 DEF Next

\* A pod that leads holds an unexpired Lease and a pod that is down or waits for
\* the Lease runs no jobs.
THEOREM LeaseInvariant == Spec => []LeaseInv
<1>1. IInv => LeaseInv
  BY DEF IInv
<1> QED
  BY InitIInv, NextIInv, <1>1, PTL DEF Spec

\* Two pods run background jobs at once only while one of them is leaving or
\* runs them unelected.
THEOREM OverlapOnlyWhileLeavingHolds ==
    Spec => []OverlapOnlyWhileLeaving
<1>1. IInv => OverlapOnlyWhileLeaving
  <2> SUFFICES ASSUME IInv, NEW p \in Pods, NEW q \in Pods,
                      Runs(p), Runs(q), p # q,
                      ~Cancelled(p), pod[p] # "single",
                      ~Cancelled(q), pod[q] # "single"
               PROVE  FALSE
    BY DEF OverlapOnlyWhileLeaving
  <2>1. ASSUME NEW r \in Pods, Runs(r), ~Cancelled(r), pod[r] # "single"
        PROVE  pod[r] = "leading"
    BY <2>1 DEF IInv, TypeOK, LeaseInv, Runs, Cancelled, Life
  <2> QED
    BY <2>1 DEF IInv, LeaseInv
<1> QED
  BY InitIInv, NextIInv, <1>1, PTL DEF Spec

\* A Lease is never found expired in the name of a pod that still leads.
THEOREM ExpiryFindsNoJobsHolds ==
    Spec => ExpiryFindsNoJobs
<1>0. IInv /\ [Next]_vars => [\A p, q \in Pods :
          Acquire(p) /\ holder = q => pod[q] = "ending"]_vars
  <2> SUFFICES ASSUME IInv, NEW p \in Pods, Acquire(p), holder \in Pods
               PROVE  pod[holder] = "ending"
    OBVIOUS
  <2> QED
    BY DEF IInv, TypeOK, LeaseInv, Acquire, LeaseFree, GiveUpAfter
<1> QED
  BY InitIInv, NextIInv, <1>0, PTL DEF Spec, ExpiryFindsNoJobs

\* Every variable keeps its type.
THEOREM TypeCorrect == Spec => []TypeOK
<1>1. IInv => TypeOK
  BY DEF IInv
<1> QED
  BY InitIInv, NextIInv, <1>1, PTL DEF Spec
=============================================================================
