---------------------------- MODULE Acquisition ----------------------------
(***************************************************************************)
(* pkg/controllers/base/acquisition.go: how one source resource acquires   *)
(* its content.  An execution fetches, may have to wait for a Secret, for  *)
(* prerequisites or for producers, and is then retained as e.pending until *)
(* the scheduler settles it at a higher drain level.  What it retains may  *)
(* hold an open handle (a connection to an SSH agent) that Close releases. *)
(* Every step begins where Reads.Valid is read or a callback returns, so   *)
(* that an input may change in between.  The scheduler retires an          *)
(* execution and dispatches the next; the two do not share a handle.       *)
(***************************************************************************)
EXTENDS Integers

DrainNone == 0
DrainCascade == 1
DrainForce == 2

VARIABLES
    stage,           \* where the task is, or what became of the execution
    level,        \* the drain level of the call
    valid,        \* Reads.Valid()
    retained,     \* e.pending is this acquisition, so that the call is a Settle
    handle,       \* prepared.Close: nil, open, or called and set to nil
    inputs, missing, ambientConsumed, local,  \* pendingAcquisitionError
    cause,        \* the error complete is called with
    result,       \* what the call returns; pending is the acquisition itself
    acquisition,  \* ReadSet.acquisition
    outstanding,  \* history: how many handles were opened and never closed
    raced,        \* history: an input changed between the two finish functions
    panicked      \* history: a callback panicked

prepVars == <<inputs, missing, ambientConsumed, local>>
acquisitionVars == <<stage, level, valid, retained, handle, prepVars, cause, result, acquisition,
                     outstanding, raced, panicked>>

Calling == {"checkpoint", "fetch", "settle", "retry", "advance", "resolve", "recheck", "content",
            "complete", "finish", "accept"}

AcquisitionInit ==
    /\ stage = "none" /\ level = DrainNone
    /\ valid = TRUE /\ retained = FALSE /\ handle = "none"
    /\ inputs = FALSE /\ missing = "none" /\ ambientConsumed = FALSE /\ local = FALSE
    /\ cause = "none" /\ result = "nil" /\ acquisition = "pending"
    /\ outstanding = 0 /\ raced = FALSE /\ panicked = FALSE

Continue(to) == stage' = to /\ UNCHANGED result
Give(r) == result' = r /\ stage' = "finish"

\* p.close
close ==
    /\ handle' = IF handle = "open" THEN "closed" ELSE handle
    /\ outstanding' = IF handle = "open" THEN outstanding - 1 ELSE outstanding

\* A PreparedFetch without a Close, and one with a handle to close.
Plain == handle' = "none" /\ UNCHANGED outstanding
Opened == handle' = "open" /\ outstanding' = outstanding + 1

\* Classification leaves no gate unresolved at DrainForce.
MayBlock == level # DrainForce
-----------------------------------------------------------------------------
(* Acquire                                                                 *)

\* The scheduler's Dispatch of a fresh execution.
Dispatch ==
    /\ stage = "none"
    /\ Continue("checkpoint")
    /\ level' = DrainNone /\ valid' = TRUE /\ acquisition' = "pending"
    /\ inputs' = FALSE /\ missing' = "none" /\ ambientConsumed' = FALSE /\ local' = FALSE
    /\ handle' = "none" /\ cause' = "none"
    /\ UNCHANGED <<retained, outstanding, raced, panicked>>

\* Checkpoint, then Select: content that discovery admitted needs no fetch.
Select ==
    /\ stage = "checkpoint"
    /\ \/ ~valid /\ Give("changed") /\ UNCHANGED local
       \/ valid /\ Give("failed") /\ UNCHANGED local
       \/ valid /\ Continue("advance") /\ local' = TRUE
       \/ valid /\ Continue("fetch") /\ local' = FALSE
    /\ UNCHANGED <<level, valid, retained, handle, inputs, missing, ambientConsumed, cause,
                   acquisition, outstanding, raced, panicked>>

\* Require and classify: the gates of a fetch that names prerequisites.
Classify ==
    \/ MayBlock /\ Give("pending")
    \/ Give("failed")
    \/ Give(IF valid THEN "nil" ELSE "changed")

\* acquisition.Fetch returns; the fetchers open nothing before a retry.
Fetch ==
    /\ stage = "fetch"
    /\ Plain
    /\ \/ /\ Give("failed")                \* the context ended
          /\ UNCHANGED <<inputs, missing, cause>>
       \/ /\ inputs' = TRUE
          /\ Classify
          /\ UNCHANGED <<missing, cause>>
       \/ /\ missing' = "named"            \* level is DrainNone here
          /\ Give("pending")
          /\ UNCHANGED <<inputs, cause>>
       \/ /\ missing' = "unnamed"
          /\ Continue("settle")
          /\ UNCHANGED <<inputs, cause>>
       \/ /\ cause' = "other"
          /\ Continue("complete")
          /\ UNCHANGED <<inputs, missing>>
       \/ /\ Continue("advance")
          /\ UNCHANGED <<inputs, missing, cause>>
    /\ UNCHANGED <<level, valid, retained, ambientConsumed, local, acquisition, raced, panicked>>
-----------------------------------------------------------------------------
(* pendingAcquisitionError.Settle                                          *)

\* Settle, given whether it still waits for the Secret and what it leaves in
\* ambientConsumed when it retries.
SettleBody(waits, consumed) ==
    LET awaits == missing # "none" /\ ~ambientConsumed IN
    /\ stage = "settle"
    /\ \/ ~valid /\ Give("changed") /\ UNCHANGED <<ambientConsumed, handle, outstanding>>
       \/ valid /\ inputs /\ Classify /\ UNCHANGED <<ambientConsumed, handle, outstanding>>
       \/ /\ valid /\ ~inputs /\ awaits /\ waits
          /\ Give("pending") /\ UNCHANGED <<ambientConsumed, handle, outstanding>>
       \/ /\ valid /\ ~inputs /\ awaits /\ ~waits
          /\ ambientConsumed' = consumed /\ close /\ Continue("retry")
       \/ /\ valid /\ ~inputs /\ ~awaits
          /\ Continue("advance") /\ UNCHANGED <<ambientConsumed, handle, outstanding>>
    /\ UNCHANGED <<level, valid, retained, inputs, missing, local, cause, acquisition, raced, panicked>>

\* A mutant: the machine credentials are tried again and again.
SettleForgets == SettleBody(level = DrainNone /\ missing = "named", FALSE)

\* A mutant: a named Secret keeps the acquisition waiting at every level.
SettleWaits == SettleBody(missing = "named", TRUE)

Settle == SettleBody(level = DrainNone /\ missing = "named", TRUE)

\* RetryMachine returns; with an SSH agent it leaves a connection open.
Retry ==
    /\ stage = "retry"
    /\ \/ cause' \in {"missing", "other"} /\ Continue("complete") /\ Plain
       \/ Continue("advance") /\ (Plain \/ Opened) /\ UNCHANGED cause
    /\ UNCHANGED <<level, valid, retained, prepVars, acquisition, raced, panicked>>
-----------------------------------------------------------------------------
(* advance and complete                                                    *)

Advance ==
    /\ stage = "advance"
    /\ \/ ~valid /\ Give("changed") /\ UNCHANGED acquisition
       \/ valid /\ Continue("resolve") /\ acquisition' = "prepared"
    /\ UNCHANGED <<level, valid, retained, handle, prepVars, cause, outstanding, raced, panicked>>

\* acquisition.Resolve: parents, producers, and content that exists already.
Resolve ==
    /\ stage = "resolve"
    /\ \/ MayBlock /\ Give("pending")
       \/ Give("failed")
       \/ Continue("recheck")
    /\ UNCHANGED <<level, valid, retained, handle, prepVars, cause, acquisition, outstanding, raced,
                   panicked>>

\* Local content completes at once; so does content LocalUnavailable forbids.
Recheck ==
    /\ stage = "recheck"
    /\ \/ ~valid /\ Give("changed") /\ UNCHANGED cause
       \/ valid /\ local /\ cause' = "none" /\ Continue("complete")
       \/ /\ valid /\ ~local /\ ambientConsumed /\ handle = "none"
          /\ cause' = "missing" /\ Continue("complete")
       \/ valid /\ ~local /\ Continue("content") /\ UNCHANGED cause
    /\ UNCHANGED <<level, valid, retained, handle, prepVars, acquisition, outstanding, raced, panicked>>

\* prepared.Fetch returns.
Content ==
    /\ stage = "content"
    /\ \/ /\ ~ambientConsumed
          /\ missing' \in {"named", "unnamed"}
          /\ Continue("settle") /\ UNCHANGED cause
       \/ /\ cause' \in {"none", "other"} \cup (IF ambientConsumed THEN {"missing"} ELSE {})
          /\ Continue("complete") /\ UNCHANGED missing
    /\ UNCHANGED <<level, valid, retained, handle, inputs, ambientConsumed, local, acquisition,
                   outstanding, raced, panicked>>

\* complete: whether a missing Secret is allowed is the acquisition's policy.
Complete ==
    /\ stage = "complete"
    /\ \/ cause # "none" /\ Give("failed") /\ UNCHANGED acquisition
       \/ cause = "none" /\ Give(IF valid THEN "nil" ELSE "changed") /\ UNCHANGED acquisition
       \/ cause = "missing" /\ ~valid /\ Give("changed") /\ acquisition' = "skipped"
       \/ cause = "missing" /\ valid /\ Give("skipped") /\ acquisition' = "skipped"
       \/ cause = "missing" /\ valid /\ Give("nil") /\ acquisition' = "pending"
    /\ UNCHANGED <<level, valid, retained, handle, prepVars, cause, outstanding, raced, panicked>>

\* A mutant: whatever is returned, the handle is closed.
finishCloses ==
    /\ stage = "finish"
    /\ close
    /\ acquisition' = IF result \in {"changed", "failed"} THEN "pending" ELSE acquisition
    /\ stage' = "accept"
    /\ UNCHANGED <<level, valid, retained, prepVars, cause, result, raced, panicked>>

\* pendingAcquisitionError.finish, deferred by Acquire and by Settle.
finish ==
    /\ stage = "finish"
    /\ IF result # "pending" \/ ~valid THEN close ELSE UNCHANGED <<handle, outstanding>>
    /\ acquisition' = IF result \in {"changed", "failed"} THEN "pending" ELSE acquisition
    /\ stage' = "accept"
    /\ UNCHANGED <<level, valid, retained, prepVars, cause, result, raced, panicked>>

\* Execution.finish: a stale execution is left to the scheduler as it is.
Accept ==
    /\ stage = "accept"
    /\ retained' = IF result = "pending" THEN retained \/ valid ELSE FALSE
    /\ stage' = IF ~valid THEN "stale" ELSE IF result = "pending" THEN "parked" ELSE "terminal"
    /\ raced' = (raced \/ (handle = "open" /\ ~valid /\ ~retained))
    /\ UNCHANGED <<level, valid, handle, prepVars, cause, result, acquisition, outstanding, panicked>>
-----------------------------------------------------------------------------
(* The scheduler and the store                                             *)

\* Execution.Settle
SettleExecution(l) ==
    /\ stage = "parked"
    /\ level' = l
    /\ IF valid THEN Continue("settle") /\ UNCHANGED <<handle, outstanding>>
                ELSE Continue("stale") /\ close
    /\ UNCHANGED <<valid, retained, prepVars, cause, acquisition, raced, panicked>>

\* A mutant: retiring an execution forgets the acquisition it waits with.
RetireForgets ==
    /\ stage \in {"parked", "terminal", "stale"}
    /\ Continue("none")
    /\ handle' = "none" /\ retained' = FALSE
    /\ UNCHANGED <<level, valid, prepVars, cause, acquisition, outstanding, raced, panicked>>

\* Execution.Retire closes what e.pending retains.
Retire ==
    /\ stage \in {"parked", "terminal", "stale"}
    /\ Continue("none")
    /\ outstanding' = IF retained /\ handle = "open" THEN outstanding - 1 ELSE outstanding
    /\ handle' = "none" /\ retained' = FALSE
    /\ UNCHANGED <<level, valid, prepVars, cause, acquisition, raced, panicked>>

\* Another goroutine publishes something the execution has read.
Change ==
    /\ stage # "none" /\ valid
    /\ valid' = FALSE
    /\ UNCHANGED <<stage, level, retained, handle, prepVars, cause, result, acquisition, outstanding,
                   raced, panicked>>

\* A callback panics: finish is deferred and sees a nil error.  Dispatch gives
\* its execution up, Settle leaves it parked.
Panic ==
    /\ stage \in {"checkpoint", "fetch", "retry", "resolve", "content", "complete"}
    /\ panicked' = TRUE
    /\ close
    /\ Continue(IF retained THEN "parked" ELSE "none")
    /\ UNCHANGED <<level, valid, retained, prepVars, cause, acquisition, raced>>

Step ==
    \/ Select \/ Fetch \/ Settle \/ Retry \/ Advance \/ Resolve \/ Recheck \/ Content \/ Complete
    \/ finish \/ Accept

\* Bound: after a leak no further execution is dispatched.
AcquisitionNext ==
    \/ Step \/ Change \/ Panic \/ Retire
    \/ ~raced /\ Dispatch
    \/ \E l \in {DrainCascade, DrainForce} : SettleExecution(l)
    \/ raced /\ stage = "none" /\ UNCHANGED acquisitionVars

AcquisitionSpec == AcquisitionInit /\ [][AcquisitionNext]_acquisitionVars

\* The task's goroutine runs, and every callback returns.
FairAcquisition == AcquisitionSpec /\ WF_acquisitionVars(Step)
-----------------------------------------------------------------------------
Held == IF handle = "open" THEN 1 ELSE 0

(* A handle is always in the hands of a call that runs or of e.pending, so *)
(* that somebody will close it (source.go 54: "Close MUST run after        *)
(* consumption or discard, including preparation failures").               *)
NoLeak == outstanding = Held /\ (handle = "open" => stage \in Calling \/ retained)

(* Nothing but a change between the two finish functions can leak a        *)
(* handle: not a retry, a panic, a settlement or a retirement.             *)
LeaksOnlyInWindow == ~raced => NoLeak

(* The continuation is never invoked on a handle that was closed: what is  *)
(* closed is also forgotten or replaced, unless a Settle panicked.         *)
NoUseAfterClose == stage = "content" /\ ~panicked => handle # "closed"

(* At DrainForce the credential settlement decides: no acquisition stays   *)
(* parked for a Secret nobody will provide.                                *)
ForceDecides == stage = "parked" /\ level = DrainForce => panicked

(* A call comes back: the mutual recursion of Settle and advance ends.     *)
AcquireReturns == stage \in Calling ~> stage \notin Calling
=============================================================================
