--------------------------- MODULE RequestsProofs ---------------------------
(* What holds of the components that make requests to an org, for every value  *)
(* of the constants: of each, and of the suite that TLC checks them in.         *)
EXTENDS MCRequests, FiniteSetTheorems, SequenceTheorems, WellFoundedInduction, TLAPS

-----------------------------------------------------------------------------
(* The installation of a package: one request at a time, and what returned is  *)
(* installed once.                                                              *)

\* Where the call is, and whose it is.
CallInv ==
  /\ callPc = "idle" => jobs = <<>> /\ attempts = 0 /\ innerLeft = Retries /\ outerLeft = Retries /\ raised = "no"
  /\ callPc # "idle" => client \in Client
  /\ callPc \in {"start", "poll", "result", "process"} => raised = "no"
  /\ callPc = "raised" => raised # "no"
  /\ client \notin Soap => raised # "oauth"

\* Jobs are asked for one after the other: all but the last have failed, and the
\* last too when the next may be asked for.
JobsInv ==
  /\ client \in AnsweredAtOnce => jobs = <<>>
  /\ \A j \in DOMAIN jobs : j < Len(jobs) => jobs[j] = "Failed"
  /\ callPc = "start" \/ (callPc = "raised" /\ raised = "retryable" /\ client \in {"namespace", "versionId"}) =>
       \A j \in DOMAIN jobs : jobs[j] = "Failed"
  /\ callPc \in {"poll", "result"} \/ (callPc = "process" /\ client \notin AnsweredAtOnce) =>
       processId = Len(jobs) /\ processId # 0
  /\ callPc \in {"result", "process"} /\ client \notin AnsweredAtOnce =>
       jobs[processId] \in {"Succeeded", "Failed"} /\ (status = "Failed" => jobs[processId] = "Failed")
  /\ callPc = "ended" /\ raised = "no" /\ client \notin AnsweredAtOnce =>
       processId = Len(jobs) /\ processId # 0 /\ jobs[processId] = "Succeeded"

\* What the retries allow: u installations with all their deployments, before this one.
Tries(u) == u * (Retries + 1)
Asked == IF callPc \in {"idle", "start"} THEN 0 ELSE 1

TriesInv ==
  IF client = "namespace" THEN attempts <= Tries(Retries - outerLeft) + (Retries - innerLeft) + Asked
  ELSE innerLeft = Retries /\ attempts <= (Retries - outerLeft) + Asked

InstallInv == InstallTypeOK /\ CallInv /\ JobsInv /\ TriesInv

LEMMA TriesGrow ==
  ASSUME NEW u \in Nat
  PROVE  Tries(u) \in Nat /\ Tries(0) = 0 /\ Tries(u + 1) = Tries(u) + Retries + 1
BY InstallAssumption DEF Tries

LEMMA TriesBounded ==
  ASSUME NEW u \in 0..Retries
  PROVE  Tries(u) + Retries + 1 <= (Retries + 1) * (Retries + 1)
<1>1. \A r, v \in Nat : u \in 0..r => u * (r + 1) + r + 1 <= (r + 1) * (r + 1)
  OBVIOUS
<1> QED BY <1>1, InstallAssumption DEF Tries

LEMMA InstallInvInit == InstallInit => InstallInv
<1> SUFFICES ASSUME InstallInit PROVE InstallInv
  OBVIOUS
<1>1. jobs = <<>> /\ Len(jobs) = 0 /\ client = "none"
  BY DEF InstallInit
<1>2. InstallTypeOK
  BY <1>1, InstallAssumption DEF InstallInit, InstallTypeOK, Exception
<1>3. CallInv /\ JobsInv
  BY <1>1 DEF InstallInit, CallInv, JobsInv, AnsweredAtOnce
<1>4. TriesInv
  BY <1>1, InstallAssumption DEF InstallInit, TriesInv, Asked
<1> QED BY <1>2, <1>3, <1>4 DEF InstallInv

\* The next job is the last one, and pending.
LEMMA NextJob ==
  ASSUME InstallTypeOK
  PROVE  /\ Append(jobs, "Pending") \in Seq({"Pending", "InProgress", "Succeeded", "Failed"})
         /\ Len(jobs) \in Nat /\ Len(Append(jobs, "Pending")) = Len(jobs) + 1
         /\ DOMAIN jobs = 1..Len(jobs) /\ DOMAIN Append(jobs, "Pending") = 1..(Len(jobs) + 1)
         /\ \A j \in 1..Len(jobs) : Append(jobs, "Pending")[j] = jobs[j]
         /\ Append(jobs, "Pending")[Len(jobs) + 1] = "Pending"
BY DEF InstallTypeOK

LEMMA InstallTypeStep ==
  ASSUME InstallInv, InstallNext
  PROVE  InstallTypeOK'
<1> USE InstallAssumption DEF InstallInv, InstallTypeOK, CallInv, JobsInv
<1>1. CASE Begin
  BY <1>1 DEF Begin, NewCall
<1>2. CASE Expire
  BY <1>2 DEF Expire
<1>3. CASE \E j \in DOMAIN jobs : ServerWorks(j)
  BY <1>3 DEF ServerWorks
<1>4. CASE InvalidSession
  BY <1>4 DEF InvalidSession, RaiseInCall, Exception
<1>5. CASE Lost
  <2>1. UNCHANGED jobs \/ jobs' = Append(jobs, "Pending")
    BY <1>5 DEF Lost
  <2>2. jobs' \in Seq({"Pending", "InProgress", "Succeeded", "Failed"}) /\ processId' \in 0..Len(jobs')
    BY <1>5, <2>1, NextJob DEF Lost
  <2> QED BY <1>5, <2>2 DEF Lost, RaiseInCall, Exception
<1>6. CASE Refused
  BY <1>6 DEF Refused, RaiseInCall, Exception
<1>7. CASE Start
  BY <1>7, NextJob DEF Start
<1>8. CASE Poll
  BY <1>8 DEF Poll, StatusOf
<1>9. CASE Result \/ Process \/ GiveUp
  BY <1>9 DEF Result, Process, GiveUp, RaiseInCall, Exception
<1>10. CASE InnerRetry \/ OuterRetry
  <2>1. innerLeft' \in 0..Retries /\ outerLeft' \in 0..Retries
    BY <1>10 DEF InnerRetry, OuterRetry
  <2>2. processId' \in 0..Len(jobs)
    BY <1>10, NextJob DEF InnerRetry, OuterRetry, NewCall
  <2> QED BY <1>10, <2>1, <2>2 DEF InnerRetry, OuterRetry, NewCall, Exception
<1> QED BY <1>1, <1>2, <1>3, <1>4, <1>5, <1>6, <1>7, <1>8, <1>9, <1>10 DEF InstallNext, CallStep, ServerStep

LEMMA CallStepKept ==
  ASSUME InstallInv, InstallNext
  PROVE  CallInv'
<1> USE DEF InstallInv, InstallTypeOK, CallInv, Exception
<1>1. CASE Begin
  BY <1>1 DEF Begin, NewCall
<1>2. CASE Expire
  BY <1>2 DEF Expire
<1>3. CASE \E j \in DOMAIN jobs : ServerWorks(j)
  BY <1>3 DEF ServerWorks
<1>4. CASE InvalidSession
  BY <1>4 DEF InvalidSession, RaiseInCall
<1>5. CASE Lost
  BY <1>5 DEF Lost, RaiseInCall
<1>6. CASE Refused
  BY <1>6 DEF Refused, RaiseInCall
<1>7. CASE Start
  BY <1>7 DEF Start
<1>8. CASE Poll
  BY <1>8 DEF Poll
<1>9. CASE Result \/ Process \/ GiveUp
  BY <1>9 DEF Result, Process, GiveUp, RaiseInCall
<1>10. CASE InnerRetry \/ OuterRetry
  BY <1>10 DEF InnerRetry, OuterRetry, NewCall
<1> QED BY <1>1, <1>2, <1>3, <1>4, <1>5, <1>6, <1>7, <1>8, <1>9, <1>10 DEF InstallNext, CallStep, ServerStep

LEMMA JobsStepKept ==
  ASSUME InstallInv, InstallNext
  PROVE  JobsInv'
<1> USE DEF InstallInv, InstallTypeOK, CallInv, JobsInv, AnsweredAtOnce
<1>1. CASE Begin
  BY <1>1 DEF Begin, NewCall
<1>2. CASE Expire
  BY <1>2 DEF Expire
<1>3. CASE \E j \in DOMAIN jobs : ServerWorks(j)
  BY <1>3 DEF ServerWorks
<1>4. CASE InvalidSession
  BY <1>4 DEF InvalidSession, RaiseInCall
<1>5. CASE Lost
  BY <1>5 DEF Lost, RaiseInCall
<1>6. CASE Refused
  BY <1>6 DEF Refused, RaiseInCall
<1>7. CASE Start
  <2>1. CASE client \in AnsweredAtOnce
    BY <1>7, <2>1 DEF Start
  <2>2. CASE client \notin AnsweredAtOnce
    <3>1. /\ jobs' = Append(jobs, "Pending") /\ processId' = Len(jobs) + 1 /\ callPc' = "poll" /\ callPc = "start"
          /\ UNCHANGED <<client, raised>>
      BY <1>7, <2>2 DEF Start
    <3>2. \A i \in DOMAIN jobs : jobs[i] = "Failed"
      BY <3>1
    <3> QED BY <2>2, <3>1, <3>2, NextJob
  <2> QED BY <2>1, <2>2
<1>8. CASE Poll
  BY <1>8 DEF Poll, StatusOf
<1>9. CASE Result \/ GiveUp
  BY <1>9 DEF Result, GiveUp
<1>11. CASE Process
  BY <1>11 DEF Process, JobFailed, RaiseInCall, HasResult
<1>10. CASE InnerRetry \/ OuterRetry
  BY <1>10 DEF InnerRetry, OuterRetry, NewCall, _should_retry
<1> QED BY <1>1, <1>2, <1>3, <1>4, <1>5, <1>6, <1>7, <1>8, <1>9, <1>10, <1>11 DEF InstallNext, CallStep, ServerStep

LEMMA TriesStepKept ==
  ASSUME InstallInv, InstallNext
  PROVE  TriesInv'
<1> USE InstallAssumption DEF TriesInv, Asked
<1>0. /\ innerLeft \in 0..Retries /\ outerLeft \in 0..Retries /\ attempts \in Nat /\ Retries \in Nat
      /\ Retries - outerLeft \in Nat /\ Tries(Retries - outerLeft) \in Nat /\ Tries(0) = 0
  <2>1. innerLeft \in 0..Retries /\ outerLeft \in 0..Retries /\ attempts \in Nat /\ Retries \in Nat
    BY DEF InstallInv, InstallTypeOK
  <2>2. Retries - outerLeft \in Nat
    BY <2>1
  <2> QED BY <2>1, <2>2, TriesGrow
<1>a. TriesInv
  BY DEF InstallInv
<1>1. CASE Begin
  BY <1>0, <1>1 DEF Begin, NewCall, InstallInv, CallInv
<1>2. CASE Expire
  BY <1>0, <1>a, <1>2 DEF Expire
<1>3. CASE \E j \in DOMAIN jobs : ServerWorks(j)
  BY <1>0, <1>a, <1>3 DEF ServerWorks
<1>4. CASE InvalidSession
  BY <1>0, <1>a, <1>4 DEF InvalidSession, RaiseInCall
<1>5. CASE Lost
  BY <1>0, <1>a, <1>5 DEF Lost, RaiseInCall
<1>6. CASE Refused
  BY <1>0, <1>a, <1>6 DEF Refused, RaiseInCall
<1>7. CASE Start
  BY <1>0, <1>a, <1>7 DEF Start
<1>8. CASE Poll
  BY <1>0, <1>a, <1>8 DEF Poll
<1>9. CASE Result \/ Process \/ GiveUp
  BY <1>0, <1>a, <1>9 DEF Result, Process, GiveUp, RaiseInCall
<1>10. CASE InnerRetry
  BY <1>0, <1>a, <1>10 DEF InnerRetry, NewCall
<1>11. CASE OuterRetry
  <2>1. outerLeft' = outerLeft - 1 /\ outerLeft > 0 /\ innerLeft' = Retries /\ callPc' = "start" /\ callPc = "raised"
        /\ UNCHANGED <<client, attempts>> /\ (client = "namespace" => innerLeft = 0)
    BY <1>11 DEF OuterRetry, NewCall
  <2>2. Retries - outerLeft' = (Retries - outerLeft) + 1
    BY <1>0, <2>1
  <2>3. Tries(Retries - outerLeft') = Tries(Retries - outerLeft) + Retries + 1
    BY <1>0, <2>2, TriesGrow
  <2> QED BY <1>0, <1>a, <2>1, <2>2, <2>3
<1> QED BY <1>1, <1>2, <1>3, <1>4, <1>5, <1>6, <1>7, <1>8, <1>9, <1>10, <1>11 DEF InstallNext, CallStep, ServerStep

LEMMA InstallInvStep == InstallInv /\ [InstallNext]_installVars => InstallInv'
<1>1. ASSUME InstallInv, InstallNext PROVE InstallInv'
  BY <1>1, InstallTypeStep, CallStepKept, JobsStepKept, TriesStepKept DEF InstallInv
<1>2. ASSUME InstallInv, UNCHANGED installVars PROVE InstallInv'
  BY <1>2 DEF InstallInv, InstallTypeOK, CallInv, JobsInv, TriesInv, Asked, JobFailed, installVars
<1> QED BY <1>1, <1>2

InstallSound == InstallTypeOK /\ OneRequestAtATime /\ ReturnedMeansInstalledOnce /\ AttemptsBounded

LEMMA InstallInvImplies == InstallInv => InstallSound
<1> SUFFICES ASSUME InstallInv PROVE InstallSound
  OBVIOUS
<1>1. OneRequestAtATime
  <2>1. jobs \in Seq({"Pending", "InProgress", "Succeeded", "Failed"}) /\ Len(jobs) \in Nat
    BY DEF InstallInv, InstallTypeOK
  <2>2. Unfinished \subseteq {Len(jobs)}
    BY <2>1 DEF InstallInv, JobsInv, Unfinished
  <2>3. IsFiniteSet({Len(jobs)}) /\ Cardinality({Len(jobs)}) = 1
    BY FS_Singleton
  <2>4. Cardinality(Unfinished) <= Cardinality({Len(jobs)})
    BY <2>2, <2>3, FS_Subset
  <2> QED BY <2>3, <2>4 DEF OneRequestAtATime
<1>2. ReturnedMeansInstalledOnce
  BY DEF InstallInv, InstallTypeOK, JobsInv, ReturnedMeansInstalledOnce
<1>3. AttemptsBounded
  <2>1. /\ innerLeft \in 0..Retries /\ outerLeft \in 0..Retries /\ attempts \in Nat /\ Retries \in Nat
        /\ Retries - outerLeft \in 0..Retries /\ Tries(Retries - outerLeft) \in Nat
    <3>1. innerLeft \in 0..Retries /\ outerLeft \in 0..Retries /\ attempts \in Nat /\ Retries \in Nat
      BY InstallAssumption DEF InstallInv, InstallTypeOK
    <3>2. Retries - outerLeft \in 0..Retries /\ Retries - outerLeft \in Nat
      BY <3>1
    <3> QED BY <3>1, <3>2, TriesGrow
  <2>2. Tries(Retries - outerLeft) + Retries + 1 <= (Retries + 1) * (Retries + 1)
    BY <2>1, TriesBounded
  <2>3. CASE client = "namespace"
    <3>1. attempts <= Tries(Retries - outerLeft) + Retries + 1
      BY <2>1, <2>3 DEF InstallInv, TriesInv, Asked
    <3>2. (Retries + 1) * (Retries + 1) \in Nat
      BY <2>1
    <3> QED BY <2>1, <2>2, <2>3, <3>1, <3>2 DEF AttemptsBounded
  <2>4. CASE client # "namespace"
    BY <2>1, <2>4 DEF InstallInv, TriesInv, Asked, AttemptsBounded
  <2> QED BY <2>3, <2>4
<1> QED BY <1>1, <1>2, <1>3 DEF InstallInv, InstallSound

\* The org never has two of the requests of a call, what returned has been installed
\* once, and the attempts are those of two nested retries.
THEOREM InstallIsSound == InstallSpec => []InstallSound
<1>1. InstallSpec => []InstallInv
  BY InstallInvInit, InstallInvStep, PTL DEF InstallSpec
<1> QED BY <1>1, InstallInvImplies, PTL

-----------------------------------------------------------------------------
(* Waiting for a chain of batch jobs.                                        *)

\* What a complete poll read goes on being so until the task sums up: the last job has
\* ended, so that no other starts, and so have those that were read.
ChainInv ==
  /\ since <= Len(apexJobs)
  /\ batchPc = "sleeping" => since # 0
  /\ batchPc = "sleeping" /\ poll.complete =>
       /\ \A i \in since..Len(apexJobs) : apexJobs[i].status \in COMPLETED_STATUSES
       /\ Len(subjobs) = Len(apexJobs) - since + 1
       /\ \A i \in since..Len(apexJobs) : subjobs[i - since + 1] = apexJobs[i]
  /\ batchPc = "passed" =>
       since # 0 /\ \A i \in since..Len(apexJobs) : apexJobs[i] = [status |-> "Completed", errors |-> 0]

\* The level follows the count once the task has slept.
IntervalInv ==
  /\ poll.interval = poll.level + 1
  /\ batchPc \in {"idle", "polling"} => poll.level = poll.count \div 3
  /\ batchPc = "sleeping" => poll.count \div 3 \in {poll.level, poll.level + 1}

BatchInv == BatchTypeOK /\ ChainInv /\ IntervalInv

LEMMA BatchInvInit == BatchInit => BatchInv
<1> SUFFICES ASSUME BatchInit PROVE BatchInv
  OBVIOUS
<1>1. poll = [complete |-> FALSE, count |-> 0, level |-> 0, interval |-> 1] /\ 0 \div 3 = 0
  BY DEF BatchInit, _reset_poll
<1>2. apexJobs \in Seq(Job) /\ Len(apexJobs) = 0 /\ subjobs \in Seq(Job)
  BY DEF BatchInit
<1> QED BY <1>1, <1>2, BatchAssumption DEF BatchInit, BatchInv, BatchTypeOK, ChainInv, IntervalInv

LEMMA NextOfChain ==
  ASSUME BatchTypeOK, NEW x \in Job
  PROVE  /\ Append(apexJobs, x) \in Seq(Job) /\ Len(apexJobs) \in Nat /\ Len(Append(apexJobs, x)) = Len(apexJobs) + 1
         /\ \A i \in 1..Len(apexJobs) : Append(apexJobs, x)[i] = apexJobs[i]
         /\ DOMAIN apexJobs = 1..Len(apexJobs) /\ DOMAIN Append(apexJobs, x) = 1..(Len(apexJobs) + 1)
BY DEF BatchTypeOK

\* A job starts while the last one runs: the poll was not complete.
LEMMA JobStartsKeeps ==
  ASSUME BatchInv, JobStarts
  PROVE  BatchInv'
<1> DEFINE x == [status |-> "Processing", errors |-> 0]
           n == Len(apexJobs)
<1>1. /\ BatchTypeOK /\ UNCHANGED <<batchPc, since, subjobs, poll>> /\ apexJobs' = Append(apexJobs, x)
      /\ n < MaxJobs /\ (apexJobs # <<>> => Last(apexJobs).status = "Processing")
  BY DEF JobStarts, BatchInv
<1>2. x \in Job
  BY DEF Job
<1>3. /\ apexJobs' \in Seq(Job) /\ n \in Nat /\ Len(apexJobs') = n + 1
      /\ \A i \in 1..n : apexJobs'[i] = apexJobs[i]
      /\ DOMAIN apexJobs = 1..n /\ DOMAIN apexJobs' = 1..(n + 1)
  <2> HIDE DEF x
  <2> QED BY <1>1, <1>2, NextOfChain
<1>4. n > 0 => apexJobs[n].status \notin COMPLETED_STATUSES
  BY <1>1, <1>3 DEF Last, BatchTypeOK, COMPLETED_STATUSES
<1>5. since \in Nat /\ since <= n
  BY <1>1 DEF BatchTypeOK, BatchInv, ChainInv
<1>6. ~(batchPc = "sleeping" /\ poll.complete) /\ batchPc # "passed"
  <2>1. ~(batchPc = "sleeping" /\ poll.complete)
    BY <1>3, <1>4, <1>5 DEF BatchInv, ChainInv
  <2>2. batchPc # "passed"
    BY <1>3, <1>4, <1>5 DEF BatchInv, ChainInv, COMPLETED_STATUSES
  <2> QED BY <2>1, <2>2
<1>7. BatchTypeOK'
  <2> HIDE DEF x
  <2> QED BY <1>1, <1>3, BatchAssumption DEF BatchTypeOK
<1>8. ChainInv'
  <2> HIDE DEF x
  <2> QED BY <1>1, <1>3, <1>5, <1>6 DEF BatchInv, ChainInv
<1> QED BY <1>1, <1>7, <1>8 DEF BatchInv, IntervalInv

\* A job that ends is none of those a complete poll read.
LEMMA JobEndsKeeps ==
  ASSUME BatchInv, JobEnds
  PROVE  BatchInv'
<1>1. PICK j \in DOMAIN apexJobs, end \in COMPLETED_STATUSES, m \in 0..1 :
        /\ apexJobs[j].status = "Processing"
        /\ apexJobs' = [apexJobs EXCEPT ![j] = [status |-> end, errors |-> m]]
        /\ UNCHANGED <<batchPc, since, subjobs, poll>>
  BY DEF JobEnds
<1> DEFINE x == [status |-> end, errors |-> m]
<1>2. x \in Job /\ apexJobs \in Seq(Job) /\ since \in Nat /\ BatchTypeOK
  BY DEF Job, BatchInv, BatchTypeOK
<1>3. apexJobs' = [apexJobs EXCEPT ![j] = x]
  BY <1>1
<1> HIDE DEF x
<1>4. /\ apexJobs' \in Seq(Job) /\ Len(apexJobs') = Len(apexJobs) /\ Len(apexJobs) \in Nat
      /\ \A i \in 1..Len(apexJobs) : i # j => apexJobs'[i] = apexJobs[i]
  BY <1>2, <1>3
<1>5. apexJobs[j].status \notin COMPLETED_STATUSES /\ apexJobs[j] # [status |-> "Completed", errors |-> 0]
  BY <1>1 DEF COMPLETED_STATUSES
<1>6. BatchTypeOK'
  BY <1>1, <1>2, <1>4 DEF BatchTypeOK
<1>7. ChainInv'
  <2>1. since <= Len(apexJobs) /\ (batchPc \in {"sleeping", "passed"} => since # 0)
    BY DEF BatchInv, ChainInv
  <2>2. CASE batchPc = "sleeping" /\ poll.complete
    <3>1. \A i \in since..Len(apexJobs) : i # j
      BY <1>5, <2>2 DEF BatchInv, ChainInv
    <3> QED BY <1>1, <1>2, <1>4, <2>1, <2>2, <3>1 DEF BatchInv, ChainInv
  <2>3. CASE batchPc = "passed"
    <3>1. \A i \in since..Len(apexJobs) : i # j
      BY <1>5, <2>3 DEF BatchInv, ChainInv
    <3> QED BY <1>1, <1>2, <1>4, <2>1, <2>3, <3>1 DEF BatchInv, ChainInv
  <2> QED BY <1>1, <1>4, <2>1, <2>2, <2>3 DEF ChainInv
<1> QED BY <1>1, <1>6, <1>7 DEF BatchInv, IntervalInv

LEMMA Shift ==
  ASSUME NEW m \in Int, NEW n \in Int, NEW i \in m..n
  PROVE  i - m + 1 \in 1..(n - m + 1) /\ m + (i - m + 1) - 1 = i
OBVIOUS

LEMMA PollJobsKeeps ==
  ASSUME BatchInv, PollJobs
  PROVE  BatchInv'
<1> DEFINE n == Len(apexJobs)
<1>1. /\ apexJobs \in Seq(Job) /\ n \in Nat /\ n > 0 /\ n <= MaxJobs /\ since \in 0..MaxJobs /\ since <= n
      /\ poll \in [complete : BOOLEAN, count : 0..MaxPolls, level : Nat, interval : Nat]
      /\ batchPc = "polling" /\ batchPc' = "sleeping" /\ UNCHANGED apexJobs
  BY DEF PollJobs, BatchInv, BatchTypeOK, ChainInv
<1>2. since' \in 1..n /\ subjobs' = SubSeq(apexJobs, since', n)
  <2>1. subjobs' = _batch_query(since) /\ since' = IF since = 0 THEN n ELSE since
    BY DEF PollJobs
  <2>2. CASE since = 0
    BY <1>1, <2>1, <2>2 DEF _batch_query
  <2>3. CASE since # 0
    BY <1>1, <2>1, <2>3 DEF _batch_query
  <2> QED BY <2>2, <2>3
<1>3. /\ subjobs' \in Seq(Job) /\ Len(subjobs') = n - since' + 1
      /\ \A i \in since'..n : subjobs'[i - since' + 1] = apexJobs[i]
  <2> DEFINE m == since'
             r == SubSeq(apexJobs, m, n)
  <2>1. m \in Int /\ n \in Int /\ m <= n /\ \A i \in m..n : apexJobs[i] \in Job
    BY <1>1, <1>2
  <2>2. r \in Seq(Job) /\ Len(r) = n - m + 1 /\ \A i \in 1..(n - m + 1) : r[i] = apexJobs[m + i - 1]
    <3> HIDE DEF n, m
    <3> QED BY <2>1, SubSeqProperties
  <2>3. ASSUME NEW i \in m..n PROVE r[i - m + 1] = apexJobs[i]
    <3>1. i - m + 1 \in 1..(n - m + 1) /\ m + (i - m + 1) - 1 = i
      BY <2>1, Shift
    <3> HIDE DEF n, m, r
    <3> QED BY <2>2, <3>1
  <2> QED BY <1>2, <2>2, <2>3
<1>4. Completed(subjobs') \in BOOLEAN /\ (Completed(subjobs') => \A i \in since'..n : apexJobs[i].status \in COMPLETED_STATUSES)
  <2>1. \A i \in since'..n : i - since' + 1 \in DOMAIN subjobs'
    <3>1. DOMAIN subjobs' = 1..(n - since' + 1) /\ since' \in Int /\ n \in Int
      BY <1>1, <1>2, <1>3
    <3> QED BY <3>1, Shift
  <2> QED BY <1>3, <2>1 DEF Completed
<1>5. /\ poll' \in [complete : BOOLEAN, count : 0..MaxPolls, level : Nat, interval : Nat]
      /\ poll'.complete = Completed(subjobs') /\ poll'.level = poll.level /\ poll'.interval = poll.interval
      /\ poll'.count \in {poll.count, poll.count + 1}
  <2> DEFINE c == Completed(subjobs')
             k == IF poll.count < MaxPolls THEN poll.count + 1 ELSE poll.count
  <2>1. poll' = [poll EXCEPT !.count = k, !.complete = c]
    BY <1>1 DEF PollJobs
  <2>2. k \in 0..MaxPolls /\ k \in {poll.count, poll.count + 1}
    BY <1>1, BatchAssumption
  <2>3. c \in BOOLEAN
    BY <1>4
  <2> HIDE DEF c, k
  <2>4. poll'.complete = c
    BY <1>1, <2>1, Zenon
  <2> QED BY <1>1, <2>1, <2>2, <2>3, <2>4 DEF c
<1>6. BatchTypeOK'
  <2>1. since' \in 0..MaxJobs
    BY <1>1, <1>2, BatchAssumption
  <2> HIDE DEF n
  <2> QED BY <1>1, <1>3, <1>5, <2>1 DEF BatchTypeOK, n
<1>7. ChainInv'
  <2>1. Len(apexJobs') = n /\ since' <= n /\ since' # 0 /\ batchPc' = "sleeping" /\ apexJobs' = apexJobs
    BY <1>1, <1>2
  <2>2. poll'.complete => \A i \in since'..n : apexJobs[i].status \in COMPLETED_STATUSES
    BY <1>4, <1>5
  <2> HIDE DEF n
  <2> QED BY <1>3, <2>1, <2>2 DEF ChainInv
<1>8. IntervalInv'
  <2>1. poll.level = poll.count \div 3 /\ poll.interval = poll.level + 1
    BY <1>1 DEF BatchInv, IntervalInv
  <2>2. (poll.count + 1) \div 3 \in {poll.count \div 3, poll.count \div 3 + 1}
    BY <1>1
  <2> QED BY <1>1, <1>5, <2>1, <2>2 DEF IntervalInv
<1> QED BY <1>6, <1>7, <1>8 DEF BatchInv

LEMMA SleepKeeps ==
  ASSUME BatchInv, Sleep
  PROVE  BatchInv'
<1>1. /\ BatchTypeOK /\ batchPc' = "polling" /\ UNCHANGED <<apexJobs, since, subjobs>>
      /\ poll.interval = poll.level + 1 /\ poll.count \div 3 \in {poll.level, poll.level + 1}
      /\ poll' = IF poll.count \div 3 > poll.level
                 THEN [poll EXCEPT !.level = poll.level + 1, !.interval = poll.interval + 1] ELSE poll
  BY DEF Sleep, BatchInv, IntervalInv, _poll_update_interval
<1>2. poll \in [complete : BOOLEAN, count : 0..MaxPolls, level : Nat, interval : Nat]
  BY <1>1 DEF BatchTypeOK
<1>3. /\ poll' \in [complete : BOOLEAN, count : 0..MaxPolls, level : Nat, interval : Nat]
      /\ poll'.level = poll'.count \div 3 /\ poll'.interval = poll'.level + 1
  <2>1. poll.level \in Nat /\ poll.interval \in Nat /\ poll.count \in Nat /\ poll.count \div 3 \in Int
    BY <1>2
  <2>2. CASE poll.count \div 3 > poll.level
    <3> DEFINE a == poll.level + 1
               b == poll.interval + 1
    <3>1. a \in Nat /\ b \in Nat /\ a = poll.count \div 3 /\ b = a + 1
      BY <1>1, <2>1, <2>2
    <3>2. poll' = [poll EXCEPT !.level = a, !.interval = b]
      BY <1>1, <2>2
    <3> HIDE DEF a, b
    <3>3. poll' \in [complete : BOOLEAN, count : 0..MaxPolls, level : Nat, interval : Nat]
          /\ poll'.level = a /\ poll'.interval = b /\ poll'.count = poll.count
      BY <1>2, <3>1, <3>2
    <3> QED BY <3>1, <3>3
  <2>3. CASE ~(poll.count \div 3 > poll.level)
    <3>1. poll.level = poll.count \div 3 /\ poll' = poll
      BY <1>1, <2>1, <2>3
    <3> QED BY <1>1, <1>2, <3>1
  <2> QED BY <2>2, <2>3
<1>4. BatchTypeOK'
  BY <1>1, <1>3 DEF BatchTypeOK
<1> QED BY <1>1, <1>3, <1>4 DEF BatchInv, ChainInv, IntervalInv

LEMMA SummarizeKeeps ==
  ASSUME BatchInv, Summarize
  PROVE  BatchInv'
<1>1. /\ BatchTypeOK /\ batchPc = "sleeping" /\ poll.complete /\ batchPc' \in {"passed", "failed"}
      /\ UNCHANGED <<apexJobs, since, subjobs, poll>>
  BY DEF Summarize, BatchInv
<1>2. /\ since # 0 /\ since <= Len(apexJobs) /\ since \in Nat /\ Len(apexJobs) \in Nat /\ apexJobs \in Seq(Job)
      /\ Len(subjobs) = Len(apexJobs) - since + 1 /\ subjobs \in Seq(Job)
      /\ \A i \in since..Len(apexJobs) : subjobs[i - since + 1] = apexJobs[i]
  BY <1>1 DEF BatchInv, ChainInv, BatchTypeOK
<1>3. ASSUME batchPc' = "passed", NEW i \in since..Len(apexJobs)
      PROVE  apexJobs[i] = [status |-> "Completed", errors |-> 0]
  <2>1. i - since + 1 \in DOMAIN subjobs /\ apexJobs[i] = subjobs[i - since + 1] /\ i \in DOMAIN apexJobs
    BY <1>2
  <2>2. apexJobs[i].status = "Completed" /\ apexJobs[i].errors = 0
    BY <1>1, <1>3, <2>1 DEF Summarize
  <2>3. apexJobs[i] \in Job
    BY <1>2, <2>1
  <2> QED BY <2>2, <2>3 DEF Job
<1> QED BY <1>1, <1>2, <1>3 DEF BatchInv, BatchTypeOK, ChainInv, IntervalInv

LEMMA BatchInvStep == BatchInv /\ [BatchNext]_batchVars => BatchInv'
<1> SUFFICES ASSUME BatchInv, [BatchNext]_batchVars PROVE BatchInv'
  OBVIOUS
<1>1. CASE StartWait
  BY <1>1 DEF StartWait, BatchInv, BatchTypeOK, ChainInv, IntervalInv
<1>2. CASE NoJob
  BY <1>2 DEF NoJob, BatchInv, BatchTypeOK, ChainInv, IntervalInv
<1>3. CASE UNCHANGED batchVars
  BY <1>3 DEF batchVars, BatchInv, BatchTypeOK, ChainInv, IntervalInv
<1> QED
  BY <1>1, <1>2, <1>3, JobStartsKeeps, JobEndsKeeps, PollJobsKeeps, SleepKeeps, SummarizeKeeps DEF BatchNext, WaitStep

BatchSound == BatchTypeOK /\ PassedWithTheWholeChain /\ IntervalFollowsCount

\* A wait that passes has seen the whole chain end, and the interval follows the polls.
THEOREM BatchIsSound == BatchSpec => []BatchSound
<1>1. BatchSpec => []BatchInv
  BY BatchInvInit, BatchInvStep, PTL DEF BatchSpec
<1>2. BatchInv => BatchSound
  BY DEF BatchInv, ChainInv, IntervalInv, BatchSound, PassedWithTheWholeChain, IntervalFollowsCount
<1> QED BY <1>1, <1>2, PTL

-----------------------------------------------------------------------------
(* A push upgrade: every org chosen has a job, is still to come, or is refused. *)

\* Where the request is when the task is somewhere, and when the server may move it.
RequestInv ==
  /\ pushPc = "idle" => request = "none" /\ pushJobs = {} /\ scheduled = 0
  /\ pushPc \in {"batches", "adding", "populated", "failed"} => request = "Created"
  /\ pushPc \in {"report", "done"} => request # "none"
  /\ pushPc = "report" => request # "Created"

\* The orgs at hand: those still to come in a batch, beside those that have a job.
AtHand == IF pushPc = "adding" THEN todo \cup batch ELSE IF pushPc = "batches" THEN todo ELSE {}

\* Each org chosen has a job, is at hand, or is refused; none is twice anywhere.
OrgsInv ==
  /\ pushJobs \subseteq chosen /\ pushJobs \cap refusing = {}
  /\ AtHand \subseteq chosen /\ AtHand \cap pushJobs = {}
  /\ pushPc = "adding" => todo \cap batch = {}
  /\ pushPc # "failed" => chosen \ refusing \subseteq pushJobs \cup AtHand /\ scheduled = Cardinality(pushJobs)

\* The orgs found by their versions have at most the version to push.
VersionsInv == mode # "list" => \A o \in chosen : installed[o] <= Target

PushInv == PushTypeOK /\ RequestInv /\ OrgsInv /\ VersionsInv

LEMMA OrgsAreFinite ==
  ASSUME NEW S, S \subseteq Subscriber
  PROVE  IsFiniteSet(S) /\ Cardinality(S) \in 0..Cardinality(Subscriber)
<1>1. IsFiniteSet(Subscriber) /\ Cardinality(Subscriber) \in Nat
  BY PushAssumption, FS_CardinalityType
<1>2. IsFiniteSet(S) /\ Cardinality(S) <= Cardinality(Subscriber)
  BY <1>1, FS_Subset
<1> QED BY <1>1, <1>2, FS_CardinalityType

LEMMA PushInvInit == PushInit => PushInv
<1> SUFFICES ASSUME PushInit PROVE PushInv
  OBVIOUS
<1>1. Cardinality({}) = 0 /\ 0 \in 0..Cardinality(Subscriber)
  BY OrgsAreFinite, FS_EmptySet
<1>2. [o \in Subscriber |-> 0] \in [Subscriber -> Version]
  BY PushAssumption DEF Version
<1> QED BY <1>1, <1>2, PushAssumption
     DEF PushInit, PushInv, PushTypeOK, RequestInv, OrgsInv, AtHand, VersionsInv, completed_statuses

LEMMA SelectKeeps == PushInv /\ SelectOrgs => PushInv'
<1> SUFFICES ASSUME PushInv, SelectOrgs PROVE PushInv'
  OBVIOUS
<1>1. /\ pushPc = "idle" /\ mode' \in {"list", "range", "exclusive"} /\ chosen' \subseteq Subscriber
      /\ mode' # "list" => \A o \in chosen' : installed'[o] <= Target
  <2>1. CASE ListOrgs
    BY <2>1 DEF ListOrgs
  <2>2. CASE QueryOrgs
    <3>1. \A o \in Subscriber : installed'[o] \in Version /\ installed'[o] \in Int
      BY PushAssumption DEF SelectOrgs, Version
    <3>2. CASE /\ mode' = "exclusive"
               /\ chosen' = Subscriber \ get_subscribers({Target} \cup get_newer_released_version_objs)
      BY <2>2, <3>1, <3>2, PushAssumption
        DEF QueryOrgs, get_subscribers, get_newer_released_version_objs
    <3>3. ASSUME NEW low \in Version, mode' = "range",
                 chosen' = UNION {get_subscribers({v}) : v \in get_older_released_version_objs(low)}
          PROVE  chosen' \subseteq Subscriber /\ \A o \in chosen' : installed'[o] <= Target
      BY <3>1, <3>3, PushAssumption DEF get_subscribers, get_older_released_version_objs
    <3> QED BY <2>2, <3>2, <3>3 DEF QueryOrgs
  <2> QED BY <2>1, <2>2 DEF SelectOrgs
<1>2. PushTypeOK'
  BY <1>1 DEF PushInv, PushTypeOK, SelectOrgs
<1>3. RequestInv' /\ VersionsInv'
  BY <1>1 DEF PushInv, RequestInv, VersionsInv, SelectOrgs
<1>4. OrgsInv'
  <2>1. pushJobs' = {} /\ scheduled' = 0 /\ pushPc' = "batches" /\ todo' = chosen'
    BY <1>1 DEF PushInv, RequestInv, SelectOrgs
  <2> QED BY <2>1, FS_EmptySet DEF OrgsInv, AtHand
<1> QED BY <1>2, <1>3, <1>4 DEF PushInv

LEMMA AddedKeeps == PushInv /\ BatchAdded => PushInv'
<1> SUFFICES ASSUME PushInv, BatchAdded PROVE PushInv'
  OBVIOUS
<1>1. pushJobs \subseteq Subscriber /\ batch \subseteq Subscriber /\ pushJobs \cap batch = {} /\ pushPc = "adding"
  BY DEF PushInv, PushTypeOK, OrgsInv, AtHand, BatchAdded
<1>2. Cardinality(pushJobs \cup batch) = Cardinality(pushJobs) + Cardinality(batch)
  <2>1. IsFiniteSet(pushJobs) /\ IsFiniteSet(batch) /\ Cardinality(pushJobs) \in Nat /\ Cardinality(batch) \in Nat
    BY <1>1, OrgsAreFinite, FS_CardinalityType
  <2>2. Cardinality(pushJobs \cup batch) =
          Cardinality(pushJobs) + Cardinality(batch) - Cardinality(pushJobs \cap batch)
    BY <2>1, FS_Union
  <2> QED BY <1>1, <2>1, <2>2, FS_EmptySet
<1>3. scheduled' = Cardinality(pushJobs')
  BY <1>1, <1>2 DEF PushInv, OrgsInv, BatchAdded
<1>4. PushTypeOK'
  <2>1. pushJobs' \subseteq Subscriber
    BY <1>1 DEF BatchAdded
  <2> QED BY <1>3, <2>1, OrgsAreFinite DEF PushInv, PushTypeOK, BatchAdded
<1>5. OrgsInv'
  BY <1>1, <1>3 DEF PushInv, OrgsInv, AtHand, BatchAdded
<1> QED BY <1>4, <1>5 DEF PushInv, RequestInv, VersionsInv, BatchAdded

LEMMA RefusedKeeps == PushInv /\ BatchRefused => PushInv'
<1> SUFFICES ASSUME PushInv, BatchRefused PROVE PushInv'
  OBVIOUS
<1>1. PICK named \in SUBSET (batch \cap refusing) \ {{}} : batch' = batch \ named
  BY DEF BatchRefused
<1>2. PushTypeOK'
  BY <1>1 DEF PushInv, PushTypeOK, BatchRefused
<1>3. RequestInv' /\ VersionsInv'
  BY DEF PushInv, RequestInv, VersionsInv, BatchRefused
<1>4. OrgsInv'
  BY <1>1 DEF PushInv, OrgsInv, AtHand, BatchRefused
<1> QED BY <1>2, <1>3, <1>4 DEF PushInv

LEMMA OtherBatchesKeep == PushInv /\ (NextBatch \/ BatchRetried \/ BatchFails \/ Populated) => PushInv'
<1> SUFFICES ASSUME PushInv, NextBatch \/ BatchRetried \/ BatchFails \/ Populated PROVE PushInv'
  OBVIOUS
<1>1. CASE NextBatch
  BY <1>1 DEF PushInv, PushTypeOK, RequestInv, OrgsInv, AtHand, VersionsInv, NextBatch
<1>2. CASE BatchRetried
  BY <1>2, PushAssumption DEF PushInv, PushTypeOK, RequestInv, OrgsInv, AtHand, VersionsInv, BatchRetried
<1>3. CASE BatchFails
  BY <1>3 DEF PushInv, PushTypeOK, RequestInv, OrgsInv, AtHand, VersionsInv, BatchFails
<1>4. CASE Populated
  BY <1>4 DEF PushInv, PushTypeOK, RequestInv, OrgsInv, AtHand, VersionsInv, Populated
<1> QED BY <1>1, <1>2, <1>3, <1>4

LEMMA ReportKeeps ==
  PushInv /\ (RunRequest \/ NothingScheduled \/ ReadStatus \/ ReportResults) => PushInv'
<1> SUFFICES ASSUME PushInv, RunRequest \/ NothingScheduled \/ ReadStatus \/ ReportResults PROVE PushInv'
  OBVIOUS
<1>1. CASE RunRequest
  BY <1>1 DEF PushInv, PushTypeOK, RequestInv, OrgsInv, AtHand, VersionsInv, RunRequest
<1>2. CASE NothingScheduled
  BY <1>2 DEF PushInv, PushTypeOK, RequestInv, OrgsInv, AtHand, VersionsInv, NothingScheduled
<1>3. CASE ReadStatus
  BY <1>3 DEF PushInv, PushTypeOK, RequestInv, OrgsInv, AtHand, VersionsInv, ReadStatus
<1>4. CASE ReportResults
  BY <1>4 DEF PushInv, PushTypeOK, RequestInv, OrgsInv, AtHand, VersionsInv, ReportResults
<1> QED BY <1>1, <1>2, <1>3, <1>4

\* The server moves only what was run; the orgs it moves get the target.
LEMMA ServerKeeps == PushInv /\ ServerPushes => PushInv' /\ (mode # "list" => \A o \in Subscriber : installed'[o] >= installed[o])
<1> SUFFICES ASSUME PushInv, ServerPushes
             PROVE  PushInv' /\ (mode # "list" => \A o \in Subscriber : installed'[o] >= installed[o])
  OBVIOUS
<1>1. \A o \in Subscriber : installed[o] \in Int
  BY PushAssumption DEF PushInv, PushTypeOK, Version
<1>2. /\ \A o \in Subscriber : installed'[o] = installed[o] \/ (o \in pushJobs /\ installed'[o] = Target)
      /\ installed' \in [Subscriber -> Version]
  BY PushAssumption DEF PushInv, PushTypeOK, ServerPushes, Version
<1>3. /\ request \in {"Pending", "InProgress"} /\ request' \in {"InProgress"} \cup completed_statuses
      /\ UNCHANGED <<pushPc, refusing, mode, chosen, todo, batch, scheduled, pushJobs, seen, bad>>
  BY DEF ServerPushes, completed_statuses
<1>4. PushTypeOK'
  BY <1>2, <1>3 DEF PushInv, PushTypeOK
<1>5. RequestInv' /\ OrgsInv'
  BY <1>3 DEF PushInv, RequestInv, OrgsInv, AtHand, completed_statuses
<1>6. VersionsInv'
  BY <1>1, <1>2, <1>3, PushAssumption DEF PushInv, PushTypeOK, VersionsInv
<1>7. mode # "list" => \A o \in Subscriber : installed'[o] >= installed[o]
  BY <1>1, <1>2, PushAssumption DEF PushInv, OrgsInv, VersionsInv
<1> QED BY <1>4, <1>5, <1>6, <1>7 DEF PushInv

LEMMA PushInvNext == PushInv /\ [PushNext]_pushVars => PushInv'
<1> SUFFICES ASSUME PushInv, [PushNext]_pushVars PROVE PushInv'
  OBVIOUS
<1>1. CASE UNCHANGED pushVars
  BY <1>1 DEF PushInv, PushTypeOK, RequestInv, OrgsInv, AtHand, VersionsInv, pushVars
<1> QED BY <1>1, SelectKeeps, AddedKeeps, RefusedKeeps, OtherBatchesKeep, ReportKeeps, ServerKeeps
     DEF PushNext, PushStep

PushSound == PushTypeOK /\ PushedIsChosenLessRefused /\ FailedPushesNothing

LEMMA PushInvImplies == PushInv => PushSound
<1> SUFFICES ASSUME PushInv PROVE PushSound
  OBVIOUS
<1>1. PushedIsChosenLessRefused
  BY DEF PushInv, PushTypeOK, RequestInv, OrgsInv, AtHand, PushedIsChosenLessRefused
<1>2. FailedPushesNothing
  BY DEF PushInv, RequestInv, FailedPushesNothing
<1> QED BY <1>1, <1>2 DEF PushInv, PushSound

LEMMA PushInvAlways == PushSpec => []PushInv
BY PushInvInit, PushInvNext, PTL DEF PushSpec

\* A push that is run has a job for each org chosen but those the server refused,
\* whatever batches were sent again, and a push that fails on the way reaches none:
\* push/tasks.py, push_api.py.
THEOREM PushIsSound == PushSpec => []PushSound
BY PushInvAlways, PushInvImplies, PTL

\* No push of orgs that were found by their versions takes one back:
\* SchedulePushOrgQuery._get_orgs.
THEOREM PushesOnlyForward == PushSpec => NeverBackwards
<1>1. PushInv /\ [PushNext]_pushVars =>
        [\A o \in Subscriber : pushPc # "idle" /\ mode # "list" => installed'[o] >= installed[o]]_pushVars
  <2> SUFFICES ASSUME PushInv, PushNext, pushPc # "idle", mode # "list", NEW o \in Subscriber
               PROVE  installed'[o] >= installed[o]
    OBVIOUS
  <2>1. installed[o] \in Int
    BY PushAssumption DEF PushInv, PushTypeOK, Version
  <2>2. CASE ServerPushes
    BY <2>2, ServerKeeps
  <2>3. CASE ~ServerPushes
    <3>1. installed' = installed
      BY <2>3 DEF PushNext, PushStep, SelectOrgs, ListOrgs, QueryOrgs, NextBatch, BatchAdded, BatchRefused, Populated,
        RunRequest, NothingScheduled, ReadStatus, ReportResults, BatchRetried, BatchFails
    <3> QED BY <2>1, <3>1
  <2> QED BY <2>2, <2>3
<1> QED BY <1>1, PushInvAlways, PTL DEF PushSpec, NeverBackwards

-----------------------------------------------------------------------------
(* A package version and what it depends on.                                  *)

\* A set of naturals has a least element: the intervals below its elements are
\* finite sets, and strict inclusion of finite sets is well-founded.
LEMMA LeastExists ==
  ASSUME NEW S \in SUBSET Nat, S # {}
  PROVE  \E n \in S : \A m \in S : n <= m
<1> DEFINE T == {0..n : n \in S}
<1>1. T \subseteq FiniteSubsetsOf(Nat) /\ T # {}
  <2>1. ASSUME NEW n \in S PROVE 0..n \in FiniteSubsetsOf(Nat)
    <3>1. IsFiniteSet(0..n) /\ 0..n \subseteq Nat
      BY FS_Interval
    <3> QED BY <3>1 DEF FiniteSubsetsOf
  <2> QED BY <2>1
<1>2. IsWellFoundedOn(StrictSubsetOrdering(Nat), FiniteSubsetsOf(Nat))
  BY FS_StrictSubsetOrderingWellFounded
<1>3. PICK x \in T : \A y \in T : <<y, x>> \notin StrictSubsetOrdering(Nat)
  <2> HIDE DEF T
  <2> QED BY ONLY <1>1, <1>2, WFMin, Zenon
<1>4. PICK n \in S : x = 0..n
  BY <1>3
<1>5. ASSUME NEW m \in S, m < n PROVE FALSE
  <2>1. 0..m \subseteq 0..n /\ 0..m # 0..n
    BY <1>5
  <2>2. 0..m \in SUBSET Nat /\ 0..n \in SUBSET Nat
    OBVIOUS
  <2>3. <<0..m, 0..n>> \in StrictSubsetOrdering(Nat)
    BY <2>1, <2>2, Zenon DEF StrictSubsetOrdering
  <2> QED BY <1>3, <1>4, <2>3
<1> QED BY <1>5

\* A later list of requests: the old ones are there, and those that have ended are as they were.
AskedMore(asked, more) ==
  /\ asked \in Seq(Request) /\ more \in Seq(Request)
  /\ DOMAIN asked \subseteq DOMAIN more
  /\ \A i \in DOMAIN asked :
       /\ more[i].package = asked[i].package /\ more[i].skip = asked[i].skip
       /\ more[i].forced = asked[i].forced /\ more[i].deps = asked[i].deps
       /\ asked[i].status # "Queued" => more[i].status = asked[i].status

\* A dependency that is named has a place, and is a version, finished, of what is at its place.
GoodDep(d, asked) ==
  /\ d # 0 /\ Rank(d, asked) \in DOMAIN Needs
  /\ d > 0 => /\ d \in DOMAIN asked /\ asked[d].status = "Success"
              /\ asked[d].package = Needs[Rank(d, asked)].package

GoodDeps(deps, asked) ==
  \A n \in DOMAIN deps :
    /\ GoodDep(deps[n], asked)
    /\ \A m \in DOMAIN deps : m < n => Rank(deps[m], asked) < Rank(deps[n], asked)

DepsInv(asked) ==
  \A i \in DOMAIN asked :
    GoodDeps(asked[i].deps, asked) /\ \A n \in DOMAIN asked[i].deps : asked[i].deps[n] < i

FoundInv(names, asked, place) ==
  GoodDeps(names, asked) /\ \A n \in DOMAIN names : Rank(names[n], asked) < place

\* One content is asked for once, but by force.
OnceInv(asked) ==
  \A i, j \in DOMAIN asked :
    /\ i < j /\ asked[i].status # "Error"
    /\ asked[i].package = asked[j].package /\ asked[i].skip = asked[j].skip
    => asked[j].forced

\* What is not promoted of the versions that v names.
LeftOf(v, asked, out) ==
  {n \in DOMAIN asked[v].deps : asked[v].deps[n] > 0 /\ asked[v].deps[n] \notin out}

OrderInv(asked, out) ==
  \A d \in out : \E v \in DOMAIN asked :
    /\ asked[v].package = Main
    /\ \/ d = v /\ LeftOf(v, asked, out) = {}
       \/ \E n \in DOMAIN asked[v].deps :
            asked[v].deps[n] > 0 /\ asked[v].deps[n] = d /\ \A m \in LeftOf(v, asked, out) : m >= n

OwnVersion(v) == v \in DOMAIN requests /\ requests[v].package = Main /\ requests[v].status = "Success"

\* What the task is about to use is what it asked for.
TaskInv ==
  /\ verPc \in {"check", "resolve", "dependency", "create", "poll"} => ~pollComplete
  /\ verPc = "dependency" =>
       /\ next \in DOMAIN Needs /\ requestId \in DOMAIN requests
       /\ requests[requestId].package = Needs[next].package
  /\ verPc = "poll" => requestId \in DOMAIN requests /\ requests[requestId].package = Main
  /\ verPc \in {"promote", "target"} => OwnVersion(versionId)
  /\ verPc = "target" => LeftOf(versionId, requests, released) = {}
  /\ verPc = "done" /\ versionId # 0 => OwnVersion(versionId)
  /\ verPc \in {"resolve", "dependency", "create"} /\ ~option.force =>
       \A i \in DOMAIN requests :
         requests[i].package = Main /\ requests[i].skip = option.skip => requests[i].status = "Error"

VersionInv ==
  /\ VersionTypeOK /\ TaskInv
  /\ DepsInv(requests) /\ FoundInv(found, requests, next)
  /\ OnceInv(requests) /\ OrderInv(requests, released)

-----------------------------------------------------------------------------

LEMMA RequestIs ==
  ASSUME NEW asked \in Seq(Request), NEW i \in DOMAIN asked
  PROVE  /\ asked[i] \in Request /\ i \in 1..Len(asked) /\ i \in Nat /\ Len(asked) \in Nat
         /\ asked[i].deps \in Seq(Int)
         /\ asked[i].skip \in BOOLEAN /\ asked[i].forced \in BOOLEAN
         /\ asked[i].status \in {"Queued", "Success", "Error"}
<1>1. asked[i] \in Request
  OBVIOUS
<1> QED BY <1>1 DEF Request

LEMMA PlaceOfSkipped ==
  ASSUME NEW k \in DOMAIN Needs, NEW asked
  PROVE  k \in Nat \ {0} /\ -k \in Int /\ -k < 0 /\ Rank(-k, asked) = k
<1>1. k \in Nat \ {0}
  BY NeedsAssumption
<1> QED BY <1>1 DEF Rank

LEMMA PlaceOfVersion ==
  ASSUME NEW k \in DOMAIN Needs, NEW asked, NEW d \in Nat, asked[d].package = Needs[k].package
  PROVE  Rank(d, asked) = k
<1>1. \A l \in DOMAIN Needs : Needs[l].package = asked[d].package <=> l = k
  BY NeedsAssumption
<1>2. NeedOf(asked[d].package) = k
  BY <1>1 DEF NeedOf
<1> QED BY <1>2 DEF Rank

LEMMA PlaceStays ==
  ASSUME NEW asked, NEW more, AskedMore(asked, more), NEW d \in Int, d < 0 \/ d \in DOMAIN asked
  PROVE  Rank(d, more) = Rank(d, asked)
<1>1. CASE d < 0
  BY <1>1 DEF Rank
<1>2. CASE d \in DOMAIN asked
  <2>1. more[d].package = asked[d].package
    BY <1>2 DEF AskedMore
  <2> QED BY <2>1 DEF Rank
<1> QED BY <1>1, <1>2

LEMMA GoodDepsStay ==
  ASSUME NEW asked, NEW more, AskedMore(asked, more), NEW deps \in Seq(Int), GoodDeps(deps, asked)
  PROVE  GoodDeps(deps, more) /\ \A n \in DOMAIN deps : Rank(deps[n], more) = Rank(deps[n], asked)
<1>1. ASSUME NEW n \in DOMAIN deps
      PROVE  GoodDep(deps[n], more) /\ Rank(deps[n], more) = Rank(deps[n], asked)
  <2>1. deps[n] \in Int /\ GoodDep(deps[n], asked)
    BY DEF GoodDeps
  <2>2. deps[n] < 0 \/ deps[n] \in DOMAIN asked
    BY <2>1 DEF GoodDep
  <2>3. Rank(deps[n], more) = Rank(deps[n], asked)
    BY <2>1, <2>2, PlaceStays
  <2> QED BY <2>1, <2>3 DEF GoodDep, AskedMore
<1> QED BY <1>1 DEF GoodDeps

LEMMA FoundStays ==
  ASSUME NEW asked, NEW more, AskedMore(asked, more), NEW names \in Seq(Int), NEW place,
         FoundInv(names, asked, place)
  PROVE  FoundInv(names, more, place)
BY GoodDepsStay DEF FoundInv

\* The next dependency joins those found so far.
LEMMA FoundGrows ==
  ASSUME NEW asked, NEW names \in Seq(Int), NEW place \in DOMAIN Needs, FoundInv(names, asked, place),
         NEW d \in Int, GoodDep(d, asked), Rank(d, asked) = place
  PROVE  Append(names, d) \in Seq(Int) /\ FoundInv(Append(names, d), asked, place + 1)
<1> DEFINE longer == Append(names, d)
<1>1. /\ longer \in Seq(Int) /\ Len(names) \in Nat /\ DOMAIN names = 1..Len(names)
      /\ DOMAIN longer = 1..(Len(names) + 1) /\ longer[Len(names) + 1] = d
      /\ \A n \in 1..Len(names) : longer[n] = names[n]
  OBVIOUS
<1>2. place \in Nat
  BY NeedsAssumption
<1>3. \A n \in 1..Len(names) : GoodDep(names[n], asked) /\ Rank(names[n], asked) \in Nat /\ Rank(names[n], asked) < place
  BY <1>1, NeedsAssumption DEF FoundInv, GoodDeps, GoodDep
<1>4. \A n, m \in 1..Len(names) : m < n => Rank(names[m], asked) < Rank(names[n], asked)
  BY <1>1 DEF FoundInv, GoodDeps
<1> HIDE DEF longer
<1>5. ASSUME NEW n \in DOMAIN longer
      PROVE  /\ GoodDep(longer[n], asked) /\ Rank(longer[n], asked) < place + 1
             /\ \A m \in DOMAIN longer : m < n => Rank(longer[m], asked) < Rank(longer[n], asked)
  <2>1. CASE n = Len(names) + 1
    <3>1. longer[n] = d
      BY <1>1, <2>1
    <3>2. ASSUME NEW m \in DOMAIN longer, m < n PROVE Rank(longer[m], asked) < Rank(longer[n], asked)
      <4>1. m \in 1..Len(names)
        BY <1>1, <2>1, <3>2
      <4> QED BY <1>1, <1>3, <3>1, <4>1
    <3> QED BY <1>2, <3>1, <3>2
  <2>2. CASE n # Len(names) + 1
    <3>1. n \in 1..Len(names) /\ longer[n] = names[n]
      BY <1>1, <2>2
    <3>2. ASSUME NEW m \in DOMAIN longer, m < n PROVE Rank(longer[m], asked) < Rank(longer[n], asked)
      <4>1. m \in 1..Len(names) /\ longer[m] = names[m]
        BY <1>1, <3>1, <3>2
      <4> QED BY <1>4, <3>1, <3>2, <4>1
    <3>3. Rank(longer[n], asked) < place + 1
      BY <1>2, <1>3, <3>1
    <3> QED BY <1>3, <3>1, <3>2, <3>3
  <2> QED BY <2>1, <2>2
<1> QED BY <1>1, <1>5 DEF FoundInv, GoodDeps, longer

\* A step that leaves the order of the requests alone keeps what was promoted in order.
LEMMA OrderStays ==
  ASSUME NEW asked, NEW more, AskedMore(asked, more), NEW out, OrderInv(asked, out)
  PROVE  OrderInv(more, out)
<1>1. \A v \in DOMAIN asked : v \in DOMAIN more /\ more[v].package = asked[v].package
                              /\ more[v].deps = asked[v].deps /\ LeftOf(v, more, out) = LeftOf(v, asked, out)
  BY DEF AskedMore, LeftOf
<1> QED BY <1>1 DEF OrderInv

LEMMA OrderGrows ==
  ASSUME NEW asked, NEW out, OrderInv(asked, out), NEW d,
         NEW v \in DOMAIN asked, asked[v].package = Main,
         \/ d = v /\ LeftOf(v, asked, out) = {}
         \/ \E n \in DOMAIN asked[v].deps :
              asked[v].deps[n] > 0 /\ asked[v].deps[n] = d /\ \A m \in LeftOf(v, asked, out) : m >= n
  PROVE  OrderInv(asked, out \cup {d})
<1>1. \A w : LeftOf(w, asked, out \cup {d}) \subseteq LeftOf(w, asked, out)
  BY DEF LeftOf
<1>2. ASSUME NEW e \in out \cup {d}
      PROVE  \E w \in DOMAIN asked :
               /\ asked[w].package = Main
               /\ \/ e = w /\ LeftOf(w, asked, out \cup {d}) = {}
                  \/ \E n \in DOMAIN asked[w].deps :
                       /\ asked[w].deps[n] > 0 /\ asked[w].deps[n] = e
                       /\ \A m \in LeftOf(w, asked, out \cup {d}) : m >= n
  <2>1. CASE e \in out
    BY <1>1, <2>1 DEF OrderInv
  <2>2. CASE e = d
    BY <1>1, <2>2
  <2> QED BY <2>1, <2>2
<1> QED BY <1>2 DEF OrderInv

-----------------------------------------------------------------------------

LEMMA AskedMoreSelf == ASSUME NEW asked \in Seq(Request) PROVE AskedMore(asked, asked)
BY DEF AskedMore

LEMMA RequestsTyped == VersionTypeOK => requests \in Seq(Request) /\ found \in Seq(Int) /\ DOMAIN requests = 1..Len(requests) /\ Len(requests) \in Nat
BY DEF VersionTypeOK

LEMMA NewIsRequest ==
  ASSUME VersionTypeOK, NEW package \in Package, NEW skip \in BOOLEAN
  PROVE  NewRequest(package, skip, found) \in Request
BY DEF VersionTypeOK, NewRequest, Request, Option

\* A request that is added: what it names was found, and nothing with its content goes on, or it is forced.
LEMMA RequestAdded ==
  ASSUME NEW asked \in Seq(Request), NEW r \in Request, NEW out, NEW names, NEW place,
         r.deps = names, r.status = "Queued",
         DepsInv(asked), FoundInv(names, asked, place), OnceInv(asked), OrderInv(asked, out),
         \/ r.forced
         \/ \A i \in DOMAIN asked : asked[i].package = r.package /\ asked[i].skip = r.skip => asked[i].status = "Error"
  PROVE  LET more == Append(asked, r) IN
         /\ AskedMore(asked, more) /\ DOMAIN more = 1..(Len(asked) + 1) /\ more[Len(asked) + 1] = r
         /\ DepsInv(more) /\ FoundInv(names, more, place) /\ OnceInv(more) /\ OrderInv(more, out)
<1> DEFINE more == Append(asked, r)
<1>1. /\ more \in Seq(Request) /\ Len(asked) \in Nat /\ DOMAIN asked = 1..Len(asked)
      /\ DOMAIN more = 1..(Len(asked) + 1) /\ more[Len(asked) + 1] = r
      /\ \A i \in 1..Len(asked) : more[i] = asked[i]
  OBVIOUS
<1>2. names \in Seq(Int)
  BY DEF Request
<1> HIDE DEF more
<1>3. AskedMore(asked, more)
  BY <1>1 DEF AskedMore
<1>4. FoundInv(names, more, place)
  BY <1>2, <1>3, FoundStays
<1>5. OrderInv(more, out)
  BY <1>3, OrderStays
<1>6. DepsInv(more)
  <2>1. ASSUME NEW i \in DOMAIN more
        PROVE  GoodDeps(more[i].deps, more) /\ \A n \in DOMAIN more[i].deps : more[i].deps[n] < i
    <3>1. CASE i = Len(asked) + 1
      <4>1. more[i].deps = names
        BY <1>1, <3>1
      <4>2. \A n \in DOMAIN names : names[n] \in Int /\ GoodDep(names[n], asked)
        BY <1>2 DEF FoundInv, GoodDeps
      <4>3. \A n \in DOMAIN names : names[n] < i
        BY <1>1, <3>1, <4>2 DEF GoodDep
      <4> QED BY <1>4, <4>1, <4>3 DEF FoundInv
    <3>2. CASE i # Len(asked) + 1
      <4>1. i \in DOMAIN asked /\ more[i].deps = asked[i].deps /\ asked[i].deps \in Seq(Int)
        BY <1>1, <3>2, RequestIs
      <4> QED BY <1>3, <4>1, GoodDepsStay DEF DepsInv
    <3> QED BY <3>1, <3>2
  <2> QED BY <2>1 DEF DepsInv
<1>7. OnceInv(more)
  <2>1. ASSUME NEW i \in DOMAIN more, NEW j \in DOMAIN more, i < j, more[i].status # "Error",
               more[i].package = more[j].package, more[i].skip = more[j].skip
        PROVE  more[j].forced
    <3>1. i \in DOMAIN asked /\ more[i] = asked[i]
      BY <1>1, <2>1
    <3>2. CASE j = Len(asked) + 1
      BY <1>1, <2>1, <3>1, <3>2
    <3>3. CASE j # Len(asked) + 1
      <4>1. j \in DOMAIN asked /\ more[j] = asked[j]
        BY <1>1, <3>3
      <4> QED BY <2>1, <3>1, <4>1 DEF OnceInv
    <3> QED BY <3>2, <3>3
  <2> QED BY <2>1 DEF OnceInv
<1> QED BY <1>1, <1>3, <1>4, <1>5, <1>6, <1>7 DEF more

LEMMA FinishKeeps == VersionInv /\ ServerFinishes => VersionInv'
<1> SUFFICES ASSUME VersionInv, ServerFinishes PROVE VersionInv'
  OBVIOUS
<1>1. PICK k \in DOMAIN requests, end \in {"Success", "Error"} :
        requests[k].status = "Queued" /\ requests' = [requests EXCEPT ![k].status = end]
  BY DEF ServerFinishes
<1>2. requests \in Seq(Request) /\ DOMAIN requests = 1..Len(requests) /\ found \in Seq(Int)
  BY RequestsTyped DEF VersionInv
<1>3. requests[k] \in Request /\ [requests[k] EXCEPT !.status = end] \in Request
  <2>1. requests[k] \in Request
    BY <1>2
  <2> QED BY <2>1 DEF Request
<1>4. /\ requests' \in Seq(Request) /\ DOMAIN requests' = DOMAIN requests /\ Len(requests') = Len(requests)
      /\ \A i \in DOMAIN requests : requests'[i] = IF i = k THEN [requests[k] EXCEPT !.status = end] ELSE requests[i]
  BY <1>1, <1>2, <1>3
<1>5. \A i \in DOMAIN requests :
        /\ requests'[i].package = requests[i].package /\ requests'[i].skip = requests[i].skip
        /\ requests'[i].forced = requests[i].forced /\ requests'[i].deps = requests[i].deps
        /\ requests[i].status # "Queued" => requests'[i].status = requests[i].status
        /\ requests'[i].status # "Error" => requests[i].status # "Error"
  <2> SUFFICES ASSUME NEW i \in DOMAIN requests
               PROVE  /\ requests'[i].package = requests[i].package /\ requests'[i].skip = requests[i].skip
                      /\ requests'[i].forced = requests[i].forced /\ requests'[i].deps = requests[i].deps
                      /\ requests[i].status # "Queued" => requests'[i].status = requests[i].status
                      /\ requests'[i].status # "Error" => requests[i].status # "Error"
    OBVIOUS
  <2>1. requests[i] \in Request
    BY <1>2
  <2> QED BY <1>1, <1>3, <1>4, <2>1 DEF Request
<1>6. AskedMore(requests, requests')
  BY <1>2, <1>4, <1>5 DEF AskedMore
<1>7. /\ verPc' = verPc /\ option' = option /\ next' = next /\ found' = found /\ requestId' = requestId
      /\ pollComplete' = pollComplete /\ versionId' = versionId /\ released' = released /\ runs' = runs
  BY DEF ServerFinishes
<1>8. VersionTypeOK'
  BY <1>4, <1>7 DEF VersionInv, VersionTypeOK
<1>9. DepsInv(requests')
  <2>1. ASSUME NEW i \in DOMAIN requests
        PROVE  GoodDeps(requests'[i].deps, requests') /\ \A n \in DOMAIN requests'[i].deps : requests'[i].deps[n] < i
    <3>1. requests[i].deps \in Seq(Int) /\ requests'[i].deps = requests[i].deps
      BY <1>2, <1>5, RequestIs
    <3> QED BY <1>6, <3>1, GoodDepsStay DEF VersionInv, DepsInv
  <2> QED BY <1>4, <2>1 DEF DepsInv
<1>10. FoundInv(found', requests', next')
  BY <1>2, <1>6, <1>7, FoundStays DEF VersionInv
<1>11. OrderInv(requests', released')
  BY <1>6, <1>7, OrderStays DEF VersionInv
<1>12. OnceInv(requests')
  BY <1>4, <1>5 DEF VersionInv, OnceInv
<1>13. TaskInv'
  <2>1. \A v : OwnVersion(v) => OwnVersion(v)'
    BY <1>4, <1>5 DEF OwnVersion
  <2>2. \A v \in DOMAIN requests : LeftOf(v, requests', released) = LeftOf(v, requests, released)
    BY <1>5 DEF LeftOf
  <2>3. ASSUME NEW i \in DOMAIN requests', requests[i].status = "Error" PROVE requests'[i].status = "Error"
    BY <1>4, <1>5, <2>3
  <2> QED BY <1>4, <1>5, <1>7, <2>1, <2>2, <2>3 DEF VersionInv, TaskInv, OwnVersion
<1> QED BY <1>8, <1>9, <1>10, <1>11, <1>12, <1>13 DEF VersionInv

LEMMA NeedsAre ==
  /\ Len(Needs) \in Nat /\ DOMAIN Needs = 1..Len(Needs) /\ 1 \in 1..(Len(Needs) + 1)
  /\ MaxRuns \in Nat /\ 0 \in 0..MaxRuns
  /\ \A k \in DOMAIN Needs : Needs[k].package \in Package /\ Needs[k].package # Main
<1>1. Needs \in Seq(Need)
  BY NeedsAssumption
<1>3. \A k \in DOMAIN Needs : Needs[k].package \in Package
  BY DEF Package
<1> QED BY <1>1, <1>3, NeedsAssumption

LEMMA OptionIs == \A o \in Option : o.unlocked \in BOOLEAN /\ o.force \in BOOLEAN /\ o.skip \in BOOLEAN /\ o.promote \in BOOLEAN
BY DEF Option

LEMMA VersionInvInit == VersionInit => VersionInv
<1> SUFFICES ASSUME VersionInit PROVE VersionInv
  OBVIOUS
<1>1. requests = <<>> /\ found = <<>> /\ Len(requests) = 0 /\ DOMAIN requests = {} /\ DOMAIN found = {} /\ next = 1
  BY DEF VersionInit
<1>2. VersionTypeOK
  <2>1. option \in Option
    BY DEF VersionInit, Option
  <2>2. requests \in Seq(Request) /\ found \in Seq(Int)
    BY <1>1
  <2>3. 0 \in 0..Len(requests) /\ released \subseteq DOMAIN requests /\ next \in 1..(Len(Needs) + 1) /\ runs \in 0..MaxRuns
    BY <1>1, NeedsAre DEF VersionInit
  <2> QED BY <2>1, <2>2, <2>3 DEF VersionInit, VersionTypeOK
<1>3. TaskInv
  BY DEF VersionInit, TaskInv
<1> QED BY <1>1, <1>2, <1>3 DEF VersionInit, VersionInv, DepsInv, FoundInv, GoodDeps, OnceInv, OrderInv

\* Steps that neither ask for anything nor find, nor promote.
LEMMA OthersStay ==
  ASSUME VersionInv, UNCHANGED <<requests, released>>, (found' = found /\ next' = next) \/ found' = <<>>,
         VersionTypeOK', TaskInv'
  PROVE  VersionInv'
<1>1. DepsInv(requests') /\ OnceInv(requests') /\ OrderInv(requests', released')
  BY DEF VersionInv
<1>2. FoundInv(found', requests', next')
  <2>1. CASE found' = <<>>
    <3>1. DOMAIN found' = {}
      BY <2>1
    <3> QED BY <3>1 DEF FoundInv, GoodDeps
  <2>2. CASE found' = found /\ next' = next
    BY <2>2 DEF VersionInv
  <2> QED BY <2>1, <2>2
<1> QED BY <1>1, <1>2 DEF VersionInv

LEMMA NewestIs ==
  ASSUME VersionTypeOK, NEW S, S \subseteq DOMAIN requests, S # {}
  PROVE  Newest(S) \in S
<1>1. DOMAIN requests = 1..Len(requests) /\ Len(requests) \in Nat
  BY RequestsTyped
<1> DEFINE T == {Len(requests) - i : i \in S}
<1>2. T \in SUBSET Nat /\ T # {}
  BY <1>1
<1>3. PICK t \in T : \A u \in T : t <= u
  <2> HIDE DEF T
  <2> QED BY <1>2, LeastExists
<1>4. \E i \in S : \A j \in S : j <= i
  <2>1. PICK i \in S : t = Len(requests) - i
    BY <1>3
  <2>2. \A j \in S : Len(requests) - j \in T
    OBVIOUS
  <2>3. \A j \in S : Len(requests) - i <= Len(requests) - j
    BY <1>3, <2>1, <2>2
  <2>4. \A j \in S : j \in Nat
    BY <1>1
  <2> QED BY <1>1, <2>1, <2>3, <2>4
<1> QED BY <1>4 DEF Newest

LEMMA ReusedIs ==
  ASSUME VersionTypeOK, NEW package, NEW skip, Reused(package, skip)
  PROVE  /\ Newest(Existing(package, skip)) \in DOMAIN requests
         /\ requests[Newest(Existing(package, skip))].package = package
<1>1. Existing(package, skip) \subseteq DOMAIN requests /\ Existing(package, skip) # {}
  BY DEF Reused, Existing
<1>2. Newest(Existing(package, skip)) \in Existing(package, skip)
  BY <1>1, NewestIs
<1> QED BY <1>2 DEF Existing

LEMMA NotReusedIs ==
  ASSUME VersionTypeOK, NEW package, NEW skip, ~Reused(package, skip), ~option.force
  PROVE  \A i \in DOMAIN requests :
           requests[i].package = package /\ requests[i].skip = skip => requests[i].status = "Error"
BY DEF Reused, Existing

LEMMA RunCreateKeeps == VersionInv /\ RunCreate => VersionInv'
<1> SUFFICES ASSUME VersionInv, RunCreate PROVE VersionInv'
  OBVIOUS
<1>1. VersionTypeOK'
  <2>1. option' \in Option /\ found' \in Seq(Int) /\ runs + 1 \in 0..MaxRuns /\ 0 \in 0..Len(requests)
    BY NeedsAre, RequestsTyped DEF VersionInv, VersionTypeOK, RunCreate
  <2> QED BY <2>1, NeedsAre DEF VersionInv, VersionTypeOK, RunCreate
<1>2. TaskInv'
  BY DEF TaskInv, RunCreate
<1> QED BY <1>1, <1>2, OthersStay DEF RunCreate

LEMMA CheckKeeps == VersionInv /\ CheckMain => VersionInv'
<1> SUFFICES ASSUME VersionInv, CheckMain PROVE VersionInv'
  OBVIOUS
<1> USE DEF VersionInv
<1>1. CASE Reused(Main, option.skip)
  <2>1. Newest(Existing(Main, option.skip)) \in 1..Len(requests)
        /\ requests[Newest(Existing(Main, option.skip))].package = Main
    BY <1>1, ReusedIs, RequestsTyped
  <2>2. VersionTypeOK'
    BY <1>1, <2>1, RequestsTyped DEF VersionTypeOK, CheckMain
  <2>3. TaskInv'
    BY <1>1, <2>1, RequestsTyped DEF TaskInv, CheckMain
  <2> QED BY <2>2, <2>3, OthersStay DEF CheckMain
<1>2. CASE ~Reused(Main, option.skip)
  <2>1. VersionTypeOK'
    BY <1>2 DEF VersionTypeOK, CheckMain
  <2>2. TaskInv'
    BY <1>2, NotReusedIs DEF TaskInv, CheckMain
  <2> QED BY <2>1, <2>2, OthersStay DEF CheckMain
<1> QED BY <1>1, <1>2

LEMMA ConvertKeeps == VersionInv /\ Convert => VersionInv'
<1> SUFFICES ASSUME VersionInv, Convert PROVE VersionInv'
  OBVIOUS
<1> USE DEF VersionInv
<1>1. next \in DOMAIN Needs /\ next + 1 \in 1..(Len(Needs) + 1) /\ next \in Nat
  BY NeedsAssumption DEF VersionTypeOK, Convert
<1>2. found \in Seq(Int)
  BY RequestsTyped
<1>3. GoodDep(-next, requests) /\ -next \in Int /\ Rank(-next, requests) = next
  BY <1>1, PlaceOfSkipped DEF GoodDep
<1>4. found' \in Seq(Int) /\ FoundInv(found', requests, next + 1)
  <2>1. CASE Needs[next].kind = "id"
    BY <1>1, <1>2, <1>3, <2>1, FoundGrows DEF Convert
  <2>2. CASE Needs[next].kind # "id"
    <3>1. \A n \in DOMAIN found : Rank(found[n], requests) \in Nat
      BY NeedsAssumption DEF FoundInv, GoodDeps, GoodDep
    <3> QED BY <1>1, <1>2, <2>2, <3>1 DEF Convert, FoundInv
  <2> QED BY <2>1, <2>2
<1>5. VersionTypeOK'
  BY <1>1, <1>4 DEF VersionTypeOK, Convert
<1>6. TaskInv'
  BY DEF TaskInv, Convert
<1>7. DepsInv(requests') /\ OnceInv(requests') /\ OrderInv(requests', released') /\ FoundInv(found', requests', next')
  BY <1>4 DEF Convert
<1> QED BY <1>5, <1>6, <1>7

LEMMA RequestDependencyKeeps == VersionInv /\ RequestDependency => VersionInv'
<1> SUFFICES ASSUME VersionInv, RequestDependency PROVE VersionInv'
  OBVIOUS
<1> USE DEF VersionInv
<1> DEFINE package == Needs[next].package
           r == NewRequest(package, FALSE, found)
<1>1. next \in DOMAIN Needs /\ package \in Package /\ package # Main
  BY NeedsAre DEF RequestDependency
<1>2. CASE Reused(package, FALSE)
  <2>1. Newest(Existing(package, FALSE)) \in DOMAIN requests
        /\ requests[Newest(Existing(package, FALSE))].package = package
    BY <1>2, ReusedIs
  <2>2. VersionTypeOK'
    <3>1. requestId' = Newest(Existing(package, FALSE))
          /\ UNCHANGED <<requests, option, next, found, pollComplete, versionId, released, runs>>
      BY <1>2 DEF RequestDependency
    <3>3. requestId' \in 0..Len(requests)
      <4>1. requestId' \in DOMAIN requests
        BY <3>1, <2>1
      <4>2. DOMAIN requests = 1..Len(requests) /\ Len(requests) \in Nat
        BY RequestsTyped
      <4> HIDE DEF VersionInv
      <4> QED BY <4>1, <4>2
    <3>2. verPc' = "dependency"
      BY DEF RequestDependency
    <3> QED BY <3>1, <3>2, <3>3 DEF VersionTypeOK
  <2>3. TaskInv'
    BY <1>1, <1>2, <2>1, RequestsTyped DEF TaskInv, RequestDependency
  <2> QED BY <1>2, <2>2, <2>3, OthersStay DEF RequestDependency
<1>3. CASE ~Reused(package, FALSE)
  <2>1. r \in Request /\ r.deps = found /\ r.status = "Queued" /\ r.package = package /\ r.skip = FALSE /\ r.forced = option.force
    BY <1>1, NewIsRequest DEF NewRequest
  <2>2. requests' = Append(requests, r) /\ requestId' = Len(requests) + 1 /\ verPc = "resolve" /\ verPc' = "dependency"
        /\ option' = option /\ next' = next /\ found' = found
        /\ pollComplete' = pollComplete /\ versionId' = versionId /\ released' = released /\ runs' = runs
    BY <1>3 DEF RequestDependency
  <2>3. r.forced \/ \A i \in DOMAIN requests : requests[i].package = r.package /\ requests[i].skip = r.skip => requests[i].status = "Error"
    <3>1. option.force \in BOOLEAN
      BY DEF VersionTypeOK, Option
    <3> QED BY <1>3, <2>1, <3>1, NotReusedIs
  <2> HIDE DEF r, package
  <2>4. /\ AskedMore(requests, requests') /\ DOMAIN requests' = 1..(Len(requests) + 1) /\ requests'[Len(requests) + 1] = r
        /\ DepsInv(requests') /\ FoundInv(found, requests', next) /\ OnceInv(requests') /\ OrderInv(requests', released)
    BY <2>1, <2>2, <2>3, RequestsTyped, RequestAdded
  <2>5. requests' \in Seq(Request) /\ Len(requests') = Len(requests) + 1 /\ Len(requests) \in Nat /\ DOMAIN requests = 1..Len(requests)
    BY <2>1, <2>2, RequestsTyped
  <2>6. VersionTypeOK'
    BY <2>2, <2>4, <2>5 DEF VersionTypeOK
  <2>7. TaskInv'
    <3>1. /\ verPc' = "dependency" => next' \in DOMAIN Needs /\ requestId' \in DOMAIN requests'
                                      /\ requests'[requestId'].package = Needs[next'].package
      BY <1>1, <2>1, <2>2, <2>4, <2>5 DEF package
    <3>2. ~option'.force => \A i \in DOMAIN requests' :
             requests'[i].package = Main /\ requests'[i].skip = option'.skip => requests'[i].status = "Error"
      <4> SUFFICES ASSUME ~option.force, NEW i \in DOMAIN requests', requests'[i].package = Main,
                          requests'[i].skip = option.skip
                   PROVE  requests'[i].status = "Error"
        BY <2>2
      <4>1. i # Len(requests) + 1
        BY <1>1, <2>1, <2>4
      <4>2. i \in DOMAIN requests /\ requests'[i] = requests[i]
        BY <2>2, <2>4, <2>5, <2>1, <4>1
      <4> QED BY <2>2, <4>2 DEF TaskInv
    <3> QED BY <2>2, <3>1, <3>2 DEF TaskInv
  <2> QED BY <2>2, <2>4, <2>6, <2>7
<1> QED BY <1>2, <1>3

LEMMA CreateKeeps == VersionInv /\ CreateMain => VersionInv'
<1> SUFFICES ASSUME VersionInv, CreateMain PROVE VersionInv'
  OBVIOUS
<1> USE DEF VersionInv
<1> DEFINE r == NewRequest(Main, option.skip, found)
<1>1. option.force \in BOOLEAN /\ option.skip \in BOOLEAN /\ Main \in Package
  <2>1. option \in Option
    BY DEF VersionTypeOK
  <2>2. Main \in Package
    BY DEF Package
  <2> QED BY <2>1, <2>2, OptionIs
<1>2. r \in Request /\ r.deps = found /\ r.status = "Queued" /\ r.package = Main /\ r.skip = option.skip /\ r.forced = option.force
  BY <1>1, NewIsRequest DEF NewRequest
<1>3. requests' = Append(requests, r) /\ requestId' = Len(requests) + 1 /\ verPc = "create" /\ verPc' = "poll"
      /\ option' = option /\ next' = next /\ found' = found
      /\ pollComplete' = pollComplete /\ versionId' = versionId /\ released' = released /\ runs' = runs
  BY DEF CreateMain
<1>4. r.forced \/ \A i \in DOMAIN requests : requests[i].package = r.package /\ requests[i].skip = r.skip => requests[i].status = "Error"
  BY <1>1, <1>2, <1>3 DEF TaskInv
<1> HIDE DEF r
<1>5. /\ AskedMore(requests, requests') /\ DOMAIN requests' = 1..(Len(requests) + 1) /\ requests'[Len(requests) + 1] = r
      /\ DepsInv(requests') /\ FoundInv(found, requests', next) /\ OnceInv(requests') /\ OrderInv(requests', released)
  BY <1>2, <1>3, <1>4, RequestsTyped, RequestAdded
<1>6. requests' \in Seq(Request) /\ Len(requests') = Len(requests) + 1 /\ Len(requests) \in Nat /\ DOMAIN requests = 1..Len(requests)
  BY <1>2, <1>3, RequestsTyped
<1>7. VersionTypeOK'
  BY <1>3, <1>5, <1>6 DEF VersionTypeOK
<1>8. TaskInv'
  BY <1>2, <1>3, <1>5, <1>6 DEF TaskInv
<1> QED BY <1>3, <1>5, <1>7, <1>8

LEMMA PollDependencyKeeps == VersionInv /\ PollDependency => VersionInv'
<1> SUFFICES ASSUME VersionInv, PollDependency PROVE VersionInv'
  OBVIOUS
<1> USE DEF VersionInv
<1>1. requests[requestId].status = "Success" /\ versionId' = requestId /\ found' = Append(found, requestId)
      /\ next' = next + 1 /\ verPc' = "resolve" /\ verPc = "dependency" /\ pollComplete' = FALSE
      /\ UNCHANGED <<option, requestId, requests, released, runs>>
  BY DEF TaskInv, PollDependency, PollAction
<1>2. next \in DOMAIN Needs /\ requestId \in DOMAIN requests /\ requests[requestId].package = Needs[next].package
  BY <1>1 DEF TaskInv
<1>3. next \in Nat /\ next + 1 \in 1..(Len(Needs) + 1) /\ requestId \in Nat \ {0} /\ requestId \in Int
  BY <1>2, NeedsAssumption, RequestsTyped
<1>4. Rank(requestId, requests) = next /\ GoodDep(requestId, requests)
  BY <1>1, <1>2, <1>3, PlaceOfVersion DEF GoodDep
<1>5. found' \in Seq(Int) /\ FoundInv(found', requests, next + 1)
  BY <1>1, <1>2, <1>3, <1>4, RequestsTyped, FoundGrows
<1>6. VersionTypeOK'
  BY <1>1, <1>3, <1>5 DEF VersionTypeOK
<1>7. TaskInv'
  BY <1>1 DEF TaskInv
<1> QED BY <1>1, <1>5, <1>6, <1>7

LEMMA OtherCreationsKeep == VersionInv /\ (Resolved \/ PollMain \/ RequestFailed \/ Fail) => VersionInv'
<1> SUFFICES ASSUME VersionInv, Resolved \/ PollMain \/ RequestFailed \/ Fail PROVE VersionInv'
  OBVIOUS
<1> USE DEF VersionInv
<1>1. CASE Resolved
  <2>1. VersionTypeOK' /\ TaskInv'
    BY <1>1 DEF VersionTypeOK, TaskInv, Resolved
  <2> QED BY <1>1, <2>1, OthersStay DEF Resolved
<1>2. CASE PollMain
  <2>1. versionId' = requestId /\ requests[requestId].status = "Success" /\ verPc = "poll" /\ verPc' = "done" /\ pollComplete' = TRUE
        /\ UNCHANGED <<option, next, found, requestId, requests, released, runs>>
    BY <1>2 DEF TaskInv, PollMain, PollAction
  <2>2. VersionTypeOK'
    BY <2>1 DEF VersionTypeOK
  <2>3. TaskInv'
    BY <2>1 DEF TaskInv, OwnVersion
  <2> QED BY <2>1, <2>2, <2>3, OthersStay
<1>3. CASE RequestFailed
  <2>1. VersionTypeOK' /\ TaskInv'
    BY <1>3 DEF VersionTypeOK, TaskInv, RequestFailed
  <2> QED BY <1>3, <2>1, OthersStay DEF RequestFailed
<1>4. CASE Fail
  <2>1. VersionTypeOK' /\ TaskInv'
    BY <1>4 DEF VersionTypeOK, TaskInv, Fail
  <2> QED BY <1>4, <2>1, OthersStay DEF Fail
<1> QED BY <1>1, <1>2, <1>3, <1>4

-----------------------------------------------------------------------------

LEMMA LeftOfIs == \A v : Unpromoted(v) = LeftOf(v, requests, released)
BY DEF Unpromoted, TwoGP, LeftOf

LEMMA RunPromoteKeeps == ASSUME VersionInv, NEW v \in DOMAIN requests, RunPromote(v) PROVE VersionInv'
<1> USE DEF VersionInv
<1>1. VersionTypeOK'
  <2>1. option' \in Option /\ versionId' \in 0..Len(requests) /\ runs + 1 \in 0..MaxRuns
        /\ verPc' \in {"target", "promote", "done"} /\ runs' = runs + 1
        /\ UNCHANGED <<next, found, requestId, pollComplete, requests, released>>
    BY NeedsAre, RequestsTyped DEF VersionTypeOK, RunPromote
  <2> QED BY <2>1 DEF VersionTypeOK
<1>2. TaskInv'
  BY LeftOfIs DEF TaskInv, RunPromote, OwnVersion
<1> QED BY <1>1, <1>2, OthersStay DEF RunPromote

\* What is promoted next is the first that is left, or the version itself.
LEMMA PromoteDependencyKeeps == VersionInv /\ PromoteDependency => VersionInv'
<1> SUFFICES ASSUME VersionInv, PromoteDependency PROVE VersionInv'
  OBVIOUS
<1> USE DEF VersionInv
<1> DEFINE S == LeftOf(versionId, requests, released)
           n == CHOOSE n \in S : \A m \in S : n <= m
           d == requests[versionId].deps[n]
<1>1. verPc = "promote" /\ S # {} /\ released' = released \cup {d} /\ OwnVersion(versionId)
      /\ UNCHANGED <<verPc, option, next, found, requestId, pollComplete, versionId, requests, runs>>
  BY LeftOfIs DEF PromoteDependency, TaskInv
<1>2. versionId \in DOMAIN requests /\ requests[versionId].package = Main /\ requests[versionId].deps \in Seq(Int)
  BY <1>1, RequestsTyped, RequestIs DEF OwnVersion
<1>3. S \in SUBSET Nat /\ S \subseteq DOMAIN requests[versionId].deps
  BY <1>2 DEF LeftOf
<1>4. n \in S /\ \A m \in S : n <= m
  <2>1. \E k \in S : \A m \in S : k <= m
    <3> HIDE DEF S
    <3> QED BY <1>1, <1>3, LeastExists
  <2> HIDE DEF S
  <2> QED BY <2>1
<1>5. n \in DOMAIN requests[versionId].deps /\ d > 0 /\ d \notin released /\ n \in Nat
  BY <1>3, <1>4 DEF LeftOf
<1> HIDE DEF n, d, S
<1>6. d \in DOMAIN requests
  BY <1>2, <1>5 DEF DepsInv, GoodDeps, GoodDep, d
<1>7. OrderInv(requests, released \cup {d})
  <2>1. requests[versionId].deps[n] = d /\ \A m \in S : m >= n
    BY <1>3, <1>4, <1>5 DEF d
  <2> QED BY <1>2, <1>5, <2>1, OrderGrows DEF S
<1>8. VersionTypeOK'
  BY <1>1, <1>6 DEF VersionTypeOK
<1>9. TaskInv'
  BY <1>1 DEF TaskInv, OwnVersion
<1> QED BY <1>1, <1>7, <1>8, <1>9

LEMMA PromoteTargetKeeps == VersionInv /\ PromoteTarget => VersionInv'
<1> SUFFICES ASSUME VersionInv, PromoteTarget PROVE VersionInv'
  OBVIOUS
<1> USE DEF VersionInv
<1>1. OwnVersion(versionId) /\ LeftOf(versionId, requests, released) = {}
      /\ UNCHANGED <<option, next, found, requestId, pollComplete, versionId, requests, runs>>
  BY LeftOfIs DEF PromoteTarget, TaskInv
<1>2. CASE requests[versionId].skip
  <2>1. VersionTypeOK' /\ TaskInv'
    BY <1>1, <1>2 DEF VersionTypeOK, TaskInv, PromoteTarget
  <2> QED BY <1>1, <1>2, <2>1, OthersStay DEF PromoteTarget
<1>3. CASE ~requests[versionId].skip
  <2>1. verPc' = "done" /\ released' = released \cup {versionId}
    BY <1>3 DEF PromoteTarget
  <2>2. OrderInv(requests, released \cup {versionId})
    BY <1>1, OrderGrows DEF OwnVersion
  <2>3. VersionTypeOK'
    BY <1>1, <2>1 DEF VersionTypeOK, OwnVersion
  <2>4. TaskInv'
    BY <1>1, <2>1 DEF TaskInv, OwnVersion
  <2> QED BY <1>1, <2>1, <2>2, <2>3, <2>4
<1> QED BY <1>2, <1>3

LEMMA VersionInvNext == VersionInv /\ [VersionNext]_versionVars => VersionInv'
<1> SUFFICES ASSUME VersionInv, [VersionNext]_versionVars PROVE VersionInv'
  OBVIOUS
<1>1. CASE UNCHANGED versionVars
  <2>1. VersionTypeOK' /\ TaskInv'
    BY <1>1 DEF VersionInv, VersionTypeOK, TaskInv, OwnVersion, versionVars
  <2> QED BY <1>1, <2>1, OthersStay DEF versionVars
<1>2. CASE \E v \in DOMAIN requests : RunPromote(v)
  BY <1>2, RunPromoteKeeps
<1> QED BY <1>1, <1>2, RunCreateKeeps, CheckKeeps, ConvertKeeps, RequestDependencyKeeps, PollDependencyKeeps,
     CreateKeeps, OtherCreationsKeep, PromoteDependencyKeeps, PromoteTargetKeeps, FinishKeeps
     DEF VersionNext, CreateStep

VersionSound ==
  VersionTypeOK /\ VersionIsOwn /\ DependenciesComeFirst /\ OncePerContent /\ ReleasedInOrder

LEMMA VersionInvImplies == VersionInv => VersionSound
<1> SUFFICES ASSUME VersionInv PROVE VersionSound
  OBVIOUS
<1> USE DEF VersionInv
<1>1. VersionIsOwn
  BY DEF TaskInv, OwnVersion, VersionIsOwn
<1>2. DependenciesComeFirst
  <2>1. ASSUME NEW i \in DOMAIN requests, NEW n \in DOMAIN requests[i].deps
        PROVE  LET d == requests[i].deps[n] IN
               /\ d > 0 => d < i /\ requests[d].status = "Success"
               /\ \A m \in DOMAIN requests[i].deps : m < n =>
                    Rank(requests[i].deps[m], requests) < Rank(d, requests)
    BY DEF DepsInv, GoodDeps, GoodDep
  <2> QED BY <2>1 DEF DependenciesComeFirst
<1>3. OncePerContent
  BY DEF OnceInv, OncePerContent
<1>4. ReleasedInOrder
  <2>1. ASSUME NEW v, NEW d, NEW n \in DOMAIN requests[v].deps, requests[v].deps[n] > 0, requests[v].deps[n] = d
        PROVE  n \in TwoGP(v)
    BY <2>1 DEF TwoGP
  <2> QED BY <2>1, LeftOfIs DEF OrderInv, ReleasedInOrder
<1> QED BY <1>1, <1>2, <1>3, <1>4 DEF VersionSound

\* The version a task returns is the one it asked for, what a request names was finished
\* before it and in the order of the project, one content is packaged once unless it is
\* forced, and what is released was promoted in the order its version asks for:
\* create_package_version.py, promote_package_version.py.
THEOREM VersionIsSound == VersionSpec => []VersionSound
BY VersionInvInit, VersionInvNext, VersionInvImplies, PTL DEF VersionSpec

-----------------------------------------------------------------------------
(* The preparation and revert of sources: what is taken out of a file is in its *)
(* copy, and what a person writes is never replaced by it.                      *)

RemovedBy(f) == <<"remove", f>> \in touched
EditedBy(f) == <<"edit", f>> \in touched

\* A file is never older than its copy, so that a revert replaces no file that is there.
TimesInv ==
  /\ \A f \in DOMAIN path : path[f].time \in 0..clock
  /\ \A f \in DOMAIN revert_path : revert_path[f].time \in 0..clock
  /\ \A f \in DOMAIN path \cap DOMAIN revert_path : revert_path[f].time <= path[f].time

\* Until a revert has been through, files are whole until all of them are in the copy.
OriginalInv ==
  /\ revertPc \in {"copying", "editing", "updating"} => copied
  /\ revertPc = "updating" => pathsLeft \subseteq DOMAIN revert_path
  /\ revertPc = "removing" => reverted
  /\ ~reverted =>
       /\ ~copied \/ revertPc = "copying" => \A f \in Paths : RemovedBy(f) \/ HasOriginal(path, f)
       /\ revertPc = "copying" => \A f \in Paths \ pathsLeft : RemovedBy(f) \/ HasOriginal(revert_path, f)
       /\ revertPc = "editing" => \A f \in Paths : RemovedBy(f) \/ HasOriginal(revert_path, f)
       /\ \A f \in Paths : RemovedBy(f) \/ HasOriginal(path, f) \/ HasOriginal(revert_path, f)

EditsInv ==
  \A f \in Paths : ~RemovedBy(f) => f \in DOMAIN path /\ (EditedBy(f) => "edit" \in path[f].text)

RevertInv ==
  /\ RevertTypeOK
  /\ preparing \in DOMAIN Prepared
  /\ TimesInv
  /\ OriginalInv
  /\ EditsInv

LEMMA RevertInvInit == RevertInit => RevertInv
<1> SUFFICES ASSUME RevertInit PROVE RevertInv OBVIOUS
<1>1. RevertTypeOK BY RevertAssumption DEF RevertInit, RevertTypeOK, NoTree
<1>2. TimesInv BY DEF RevertInit, TimesInv, NoTree
<1>3. OriginalInv BY DEF RevertInit, OriginalInv, HasOriginal, RemovedBy
<1>4. EditsInv BY DEF RevertInit, EditsInv, RemovedBy, EditedBy
<1> QED BY <1>1, <1>2, <1>3, <1>4 DEF RevertInv, RevertInit

LEMMA CopyKeeps ==
  ASSUME NEW f \in Paths, RevertInv, Copy(f)
  PROVE  RevertInv'
<1> DEFINE copy == With(revert_path, f, path[f])
<1> USE DEF RevertInv
<1>1. revertPc = "copying" /\ copied /\ UNCHANGED <<revertPc, preparing, path, copied, clock, preparations, reverted, touched>>
  BY DEF Copy, OriginalInv
<1>2. CASE f \notin DOMAIN path
  <2>1. UNCHANGED revert_path /\ RemovedBy(f)
    BY <1>2 DEF Copy, EditsInv
  <2>2. RevertTypeOK' BY <1>1, <2>1 DEF RevertTypeOK, Copy
  <2>3. TimesInv' BY <1>1, <2>1 DEF TimesInv
  <2>4. OriginalInv'
    <3>1. (RemovedBy(f))' BY <2>1, <1>1 DEF RemovedBy
    <3> QED BY <1>1, <2>1, <3>1 DEF OriginalInv, HasOriginal, RemovedBy, Copy
  <2>5. EditsInv' BY <1>1 DEF EditsInv, RemovedBy, EditedBy
  <2> QED BY <1>1, <2>2, <2>3, <2>4, <2>5
<1>3. CASE f \in DOMAIN path
  <2>1. revert_path' = copy BY <1>3 DEF Copy
  <2>2. /\ DOMAIN revert_path' = DOMAIN revert_path \cup {f} /\ revert_path'[f] = path[f]
        /\ \A g \in DOMAIN revert_path : g # f => revert_path'[g] = revert_path[g]
    BY <2>1 DEF With
  <2>3. RevertTypeOK' BY <1>1, <2>2 DEF RevertTypeOK, Copy
  <2>4. TimesInv' BY <1>1, <1>3, <2>2 DEF TimesInv, RevertTypeOK
  <2>5. OriginalInv'
    <3>1. \A g \in Paths : HasOriginal(revert_path, g) => HasOriginal(revert_path, g)' \/ g = f
      BY <2>2 DEF HasOriginal
    <3>2. HasOriginal(path, f) => HasOriginal(revert_path, f)'
      BY <2>2 DEF HasOriginal
    <3>3. \A g \in Paths : HasOriginal(path, g)' = HasOriginal(path, g) /\ RemovedBy(g)' = RemovedBy(g)
      BY <1>1 DEF HasOriginal, RemovedBy
    <3> QED BY <1>1, <3>1, <3>2, <3>3 DEF OriginalInv, Copy
  <2>6. EditsInv' BY <1>1 DEF EditsInv, RemovedBy, EditedBy
  <2> QED BY <1>1, <2>3, <2>4, <2>5, <2>6
<1> QED BY <1>2, <1>3

LEMMA FindReplaceKeeps ==
  ASSUME NEW f \in Paths, RevertInv, find_replace(f)
  PROVE  RevertInv'
<1> DEFINE taken == Prepared[preparing][f]
           edited == With(path, f, [text |-> path[f].text \ taken, time |-> clock])
<1> USE DEF RevertInv
<1>1. revertPc = "editing" /\ copied /\ UNCHANGED <<revertPc, preparing, revert_path, copied, clock, preparations, reverted, touched>>
  BY DEF find_replace, OriginalInv
<1>2. CASE UNCHANGED path
  <2>1. RevertTypeOK' BY <1>1, <1>2 DEF RevertTypeOK, find_replace
  <2>2. TimesInv' BY <1>1, <1>2 DEF TimesInv
  <2>3. OriginalInv' BY <1>1, <1>2 DEF OriginalInv, HasOriginal, RemovedBy
  <2>4. EditsInv' BY <1>1, <1>2 DEF EditsInv, RemovedBy, EditedBy
  <2> QED BY <1>1, <2>1, <2>2, <2>3, <2>4
<1>3. CASE f \in DOMAIN path /\ path' = edited
  <2>1. /\ DOMAIN path' = DOMAIN path
        /\ path'[f].text = path[f].text \ taken /\ path'[f].time = clock
        /\ \A g \in DOMAIN path : g # f => path'[g] = path[g]
    BY <1>3 DEF With
  <2>2. RevertTypeOK' BY <1>1, <2>1 DEF RevertTypeOK, find_replace
  <2>3. TimesInv'
    <3>1. \A g \in DOMAIN path' : path'[g].time = clock \/ path'[g] = path[g]
      BY <2>1
    <3> QED BY <1>1, <2>1, <3>1 DEF TimesInv, RevertTypeOK
  <2>4. OriginalInv' BY <1>1 DEF OriginalInv, HasOriginal, RemovedBy
  <2>5. EditsInv'
    <3>1. "edit" \notin taken BY RevertAssumption
    <3> QED BY <1>1, <2>1, <3>1 DEF EditsInv, RemovedBy, EditedBy
  <2> QED BY <1>1, <2>2, <2>3, <2>4, <2>5
<1> QED BY <1>2, <1>3 DEF find_replace

\* What is copied back was not there: what is there is never older.
LEMMA UpdateKeeps ==
  ASSUME NEW f \in Paths, RevertInv, update_tree(f)
  PROVE  RevertInv'
<1> USE DEF RevertInv
<1>1. revertPc = "updating" /\ copied /\ UNCHANGED <<revertPc, preparing, revert_path, copied, clock, preparations, reverted, touched>>
  BY DEF update_tree, OriginalInv
<1>2. CASE UNCHANGED path
  <2>1. RevertTypeOK' BY <1>1, <1>2 DEF RevertTypeOK, update_tree
  <2>2. TimesInv' BY <1>1, <1>2 DEF TimesInv
  <2>3. OriginalInv' BY <1>1, <1>2 DEF OriginalInv, HasOriginal, RemovedBy, update_tree
  <2>4. EditsInv' BY <1>1, <1>2 DEF EditsInv, RemovedBy, EditedBy
  <2> QED BY <1>1, <2>1, <2>2, <2>3, <2>4
<1>3. CASE f \notin DOMAIN path /\ path' = With(path, f, revert_path[f])
  <2>1. /\ DOMAIN path' = DOMAIN path \cup {f} /\ path'[f] = revert_path[f]
        /\ \A g \in DOMAIN path : path'[g] = path[g]
    BY <1>3 DEF With
  <2>2. f \in DOMAIN revert_path /\ RemovedBy(f)
    BY <1>1, <1>3 DEF update_tree, OriginalInv, EditsInv
  <2>3. RevertTypeOK' BY <1>1, <2>1 DEF RevertTypeOK, update_tree
  <2>4. TimesInv' BY <1>1, <2>1, <2>2 DEF TimesInv, RevertTypeOK
  <2>5. OriginalInv'
    <3>1. \A g \in Paths : HasOriginal(path, g) => HasOriginal(path, g)'
      BY <2>1 DEF HasOriginal
    <3> QED BY <1>1, <3>1 DEF OriginalInv, HasOriginal, RemovedBy, update_tree
  <2>6. EditsInv' BY <1>1, <2>1, <2>2 DEF EditsInv, RemovedBy, EditedBy
  <2> QED BY <1>1, <2>3, <2>4, <2>5, <2>6
<1>4. f \in DOMAIN path => UNCHANGED path
  <2>1. f \in DOMAIN path => revert_path[f].time - path[f].time <= 0
    BY <1>1 DEF update_tree, OriginalInv, TimesInv, RevertTypeOK
  <2> QED BY <2>1, <1>1 DEF update_tree, TimesInv, RevertTypeOK, OriginalInv
<1> QED BY <1>2, <1>3, <1>4 DEF update_tree

LEMMA RemovalKeeps ==
  ASSUME NEW f \in Paths, RevertInv, rmtree(f)
  PROVE  RevertInv'
<1> USE DEF RevertInv
<1>1. revertPc = "removing" /\ UNCHANGED <<revertPc, preparing, path, copied, pathsLeft, clock, preparations, reverted, touched>>
  BY DEF rmtree
<1>2. /\ DOMAIN revert_path' = DOMAIN revert_path \ {f}
      /\ \A g \in DOMAIN revert_path' : revert_path'[g] = revert_path[g]
  BY DEF rmtree, Restrict
<1>3. copied
  BY <1>1 DEF rmtree, RevertTypeOK, NoTree
<1>4. RevertTypeOK' BY <1>1, <1>2, <1>3 DEF RevertTypeOK
<1>5. TimesInv' BY <1>1, <1>2 DEF TimesInv
<1>6. OriginalInv' BY <1>1 DEF OriginalInv
<1>7. EditsInv' BY <1>1 DEF EditsInv, RemovedBy, EditedBy
<1> QED BY <1>1, <1>4, <1>5, <1>6, <1>7

LEMMA PersonKeeps ==
  ASSUME NEW f \in Paths, RevertInv, PersonEdits(f) \/ PersonRemoves(f)
  PROVE  RevertInv'
<1> USE DEF RevertInv
<1>1. CASE PersonEdits(f)
  <2>1. /\ revertPc \in {"idle", "prepared"} /\ f \in DOMAIN path
        /\ UNCHANGED <<revertPc, preparing, revert_path, copied, pathsLeft, clock, preparations, reverted>>
    BY <1>1 DEF PersonEdits
  <2>2. /\ DOMAIN path' = DOMAIN path
        /\ path'[f].text = path[f].text \cup {"edit"} /\ path'[f].time = clock
        /\ \A g \in DOMAIN path : g # f => path'[g] = path[g]
    BY <1>1 DEF PersonEdits
  <2>3. \A g \in Paths : RemovedBy(g)' = RemovedBy(g) /\ (g # f => EditedBy(g)' = EditedBy(g))
    BY <1>1 DEF PersonEdits, RemovedBy, EditedBy
  <2>4. RevertTypeOK' BY <2>1, <2>2 DEF RevertTypeOK
  <2>5. TimesInv' BY <2>1, <2>2 DEF TimesInv, RevertTypeOK
  <2>6. \A g \in Paths : HasOriginal(path, g) => HasOriginal(path, g)'
    BY <2>2 DEF HasOriginal
  <2>7. OriginalInv' BY <2>1, <2>3, <2>6 DEF OriginalInv, HasOriginal
  <2>8. EditsInv' BY <2>2, <2>3 DEF EditsInv
  <2> QED BY <2>1, <2>4, <2>5, <2>7, <2>8
<1>2. CASE PersonRemoves(f)
  <2>1. /\ revertPc \in {"idle", "prepared"}
        /\ UNCHANGED <<revertPc, preparing, revert_path, copied, pathsLeft, clock, preparations, reverted>>
    BY <1>2 DEF PersonRemoves
  <2>2. /\ DOMAIN path' = DOMAIN path \ {f}
        /\ \A g \in DOMAIN path' : path'[g] = path[g]
    BY <1>2 DEF PersonRemoves, Restrict
  <2>3. RemovedBy(f)' /\ \A g \in Paths : (RemovedBy(g) => RemovedBy(g)') /\ ~EditedBy(g)'
    BY <1>2 DEF PersonRemoves, RemovedBy, EditedBy
  <2>4. RevertTypeOK' BY <2>1, <2>2 DEF RevertTypeOK
  <2>5. TimesInv' BY <2>1, <2>2 DEF TimesInv
  <2>6. \A g \in Paths : HasOriginal(path, g) => HasOriginal(path, g)' \/ g = f
    BY <2>2 DEF HasOriginal
  <2>7. OriginalInv' BY <2>1, <2>3, <2>6 DEF OriginalInv, HasOriginal
  <2>8. EditsInv' BY <2>2, <2>3 DEF EditsInv
  <2> QED BY <2>1, <2>4, <2>5, <2>7, <2>8
<1> QED BY <1>1, <1>2

\* What moves no file.
LEMMA TasksKeep ==
  ASSUME RevertInv,
         (\E k \in DOMAIN Prepared : Prepare(k)) \/ Copied \/ EditingEnds \/ Revert \/ Updated \/ Removed
           \/ FlowStops \/ Tick \/ UNCHANGED revertVars
  PROVE  RevertInv'
<1> USE DEF RevertInv
<1>1. UNCHANGED <<path, revert_path, touched>>
  BY DEF Prepare, Copied, EditingEnds, Revert, Updated, Removed, FlowStops, Tick, revertVars
<1>2. /\ \A f \in Paths : HasOriginal(path, f)' = HasOriginal(path, f) /\ HasOriginal(revert_path, f)' = HasOriginal(revert_path, f)
      /\ \A f \in Paths : RemovedBy(f)' = RemovedBy(f) /\ EditedBy(f)' = EditedBy(f)
  BY <1>1 DEF HasOriginal, RemovedBy, EditedBy
<1>3. preparing' \in DOMAIN Prepared
  BY DEF Prepare, Copied, EditingEnds, Revert, Updated, Removed, FlowStops, Tick, revertVars
<1>4. clock' \in 0..MaxClock /\ clock <= clock'
  BY RevertAssumption DEF Prepare, Copied, EditingEnds, Revert, Updated, Removed, FlowStops, Tick, revertVars, RevertTypeOK
<1>5. RevertTypeOK'
  BY <1>1, <1>4, RevertAssumption
  DEF Prepare, Copied, EditingEnds, Revert, Updated, Removed, FlowStops, Tick, revertVars, RevertTypeOK
<1>6. TimesInv' BY <1>1, <1>4 DEF TimesInv, RevertTypeOK
<1>7. EditsInv' BY <1>1, <1>2 DEF EditsInv
<1>8. OriginalInv'
  <2>1. CASE \E k \in DOMAIN Prepared : Prepare(k)
    <3>1. \A f \in Paths \ DOMAIN path : RemovedBy(f) BY DEF EditsInv
    <3> QED BY <1>2, <2>1, <3>1 DEF Prepare, OriginalInv
  <2>2. CASE Copied BY <1>2, <2>2 DEF Copied, OriginalInv
  <2>3. CASE EditingEnds BY <1>2, <2>3 DEF EditingEnds, OriginalInv
  <2>4. CASE Revert BY <1>2, <2>4 DEF Revert, OriginalInv
  <2>5. CASE Updated BY <1>2, <2>5 DEF Updated, OriginalInv
  <2>6. CASE Removed BY <1>2, <2>6 DEF Removed, OriginalInv
  <2>7. CASE FlowStops BY <1>2, <2>7 DEF FlowStops, OriginalInv
  <2>8. CASE Tick \/ UNCHANGED revertVars BY <1>2, <2>8 DEF Tick, revertVars, OriginalInv
  <2> QED BY <2>1, <2>2, <2>3, <2>4, <2>5, <2>6, <2>7, <2>8
<1> QED BY <1>3, <1>5, <1>6, <1>7, <1>8

LEMMA RevertInvNext == RevertInv /\ [RevertNext]_revertVars => RevertInv'
BY CopyKeeps, FindReplaceKeeps, UpdateKeeps, RemovalKeeps, PersonKeeps, TasksKeep DEF RevertNext

LEMMA RevertInvImplies == RevertInv => RevertIsSafe
BY DEF RevertInv, RevertIsSafe, OriginalInv, EditsInv, OriginalIsSomewhere, PersonsEditsStay, RemovedBy, EditedBy

LEMMA RevertKeepsSafe == RevertSpec => []RevertIsSafe
BY RevertInvInit, RevertInvNext, RevertInvImplies, PTL DEF RevertSpec

-----------------------------------------------------------------------------
(* The suite of the components that make requests: a behaviour of it is one  *)
(* of each, for the others do not move.                                      *)

SuiteVars ==
  <<subject, installVars, versionVars, pushVars, apexVars, batchVars, editVars, contentVars, revertVars>>

LEMMA SuiteInit == Init => InstallInit /\ BatchInit /\ VersionInit /\ PushInit /\ RevertInit
BY DEF Init

LEMMA SuiteStep ==
  [Next]_SuiteVars =>
    /\ [InstallNext]_installVars /\ [BatchNext]_batchVars
    /\ [VersionNext]_versionVars /\ [PushNext]_pushVars /\ [RevertNext]_revertVars
BY DEF Next, SuiteVars

LEMMA SuiteImplements == Spec => InstallSpec /\ BatchSpec /\ VersionSpec /\ PushSpec /\ RevertSpec
BY SuiteInit, SuiteStep, PTL DEF Spec, SuiteVars, InstallSpec, BatchSpec, VersionSpec, PushSpec, RevertSpec

\* Nothing is asked for while what was asked for before may still happen, what returned
\* has happened once, and no link of a chain of jobs is missed: install_package_version.py,
\* batch_apex.py and the loops of core/tasks.py.
THEOREM WaitsAreSoundHolds == Spec => []WaitsAreSound
<1>1. InstallSound /\ BatchSound => WaitsAreSound
  BY DEF InstallSound, BatchSound, WaitsAreSound
<1> QED BY <1>1, SuiteImplements, InstallIsSound, BatchIsSound, PTL

\* A version is its project's, made once for its content and after what it names; a push
\* reaches the orgs chosen but those refused, or none: create_package_version.py,
\* promote_package_version.py, push/tasks.py.
THEOREM VersionsAreSoundHolds == Spec => []VersionsAreSound
<1>1. VersionSound /\ PushSound => VersionsAreSound
  BY DEF VersionSound, PushSound, VersionsAreSound
<1> QED BY <1>1, SuiteImplements, VersionIsSound, PushIsSound, PTL

\* What a preparation takes out of a file is in the directory or in its copy until a revert
\* has been through it, and no revert replaces what a person wrote, wherever flows stop and
\* however often the tasks are run: managed_src.py, ee_src.py and update_tree of utils.
THEOREM RevertIsSafeHolds == Spec => []RevertIsSafe
BY SuiteImplements, RevertKeepsSafe, PTL
=============================================================================
