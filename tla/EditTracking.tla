---------------------------- MODULE EditTracking ----------------------------
(***************************************************************************)
(* Edits and the scans that pick them up.  A hook submits a file after it  *)
(* was edited, and the daemon may drop, merge, absorb, requeue or          *)
(* supersede jobs as long as every acknowledged edit is still scanned      *)
(* after it happened.  The history variable `wanted` follows the last      *)
(* acknowledged edit of each file: "waiting" for a scan to start,          *)
(* "scanning" once one has started, "none" when that scan has ended or a   *)
(* client cancelled the last job that covered it.                          *)
(***************************************************************************)
EXTENDS Daemon

VARIABLE wanted

trackVars == <<vars, wanted>>

Edits == Projects \X Files

Covers(j, x) == key[j] \in {x, <<x[1], FullScan>>}

(* Some job that covers x went from the statuses in `from` to those in `to` *)
Moved(x, from, to) ==
  \E j \in JobIds : status[j] \in from /\ status'[j] \in to /\ Covers(j, x)

StillQueued(x) == \E j \in JobIds : status'[j] = "pending" /\ Covers(j, x)'

Followed(x) ==
  IF wanted[x] = "waiting" /\ Moved(x, {"pending"}, {"running"})
    THEN "scanning"
  ELSE IF wanted[x] = "scanning" /\ Moved(x, Executing, {"succeeded", "failed", "cancelled"})
    THEN "none"
  ELSE IF wanted[x] = "scanning" /\ Moved(x, {"running"}, {"pending", "superseded"})
    THEN "waiting"
  ELSE IF wanted[x] = "waiting" /\ Moved(x, {"pending"}, {"cancelled"}) /\ ~StillQueued(x)
    THEN "none"
  ELSE wanted[x]

TrackInit == Init /\ wanted = [x \in Edits |-> "none"]

TrackNext ==
  \/ \E p \in Projects, f \in Files, prio \in Priorities :
       /\ Submit(p, f, prio)
       /\ wanted' = [wanted EXCEPT ![<<p, f>>] = IF clock >= projects[p] THEN "waiting" ELSE @]
  \/ /\ NextButSubmit
     /\ wanted' = [x \in Edits |-> Followed(x)]

TrackSpec == TrackInit /\ [][TrackNext]_trackVars
TrackFairSpec == TrackSpec /\ Fairness

(***************************************************************************)
(* Invariant: no acknowledged edit is lost.  One that waits for a scan has *)
(* a pending job that covers it, even if a scan of the same file is under  *)
(* way that may have read it before the edit; one that is being scanned    *)
(* has an executing job that covers it (submit, submit_full_scan, recover).*)
(***************************************************************************)
NoEditLost ==
  \A x \in Edits :
    /\ wanted[x] = "waiting" => \E j \in JobIds : IsPending(j) /\ Covers(j, x)
    /\ wanted[x] = "scanning" => \E j \in JobIds : IsExecuting(j) /\ Covers(j, x)
=============================================================================
