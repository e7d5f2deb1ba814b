------------------------------ MODULE Feedback ------------------------------
(***************************************************************************)
(* The feedback object of one version: createFeedback() makes it of one of *)
(* two classes, which share the variables the class FeedbackBuffer names.  *)
(***************************************************************************)
EXTENDS TotalExecutionTime, RecentExecutionTime

CONSTANT Requested \* the kinds of feedback a context may ask for

ofTotal  == <<newDeployed, dataPoints, sumSqDiff, cached>>
ofRecent == <<ring, lastCalc, sampleSz, stdErr, local>>
vars     == <<base, ofTotal, ofRecent>>

\* createFeedback(requested, PREFERRED_FEEDBACK); the kinds left out make it throw.
Class(requested) == IF requested = "None" THEN "Total" ELSE requested

IsTotal == FBK \in {"Total", "Total_IgnoreError"}


Init ==
  /\ \E r \in Requested : FBK = Class(r)
  /\ BaseInit /\ TotalInit /\ RecentInit
  /\ average = IF IsTotal THEN <<0, 1>> ELSE Huge

Next ==
  \/ IsTotal /\ TotalNext /\ UNCHANGED ofRecent
  \/ ~IsTotal /\ RecentNext /\ UNCHANGED ofTotal

Spec == Init /\ [][Next]_vars

-----------------------------------------------------------------------------
(* Correctness.                                                             *)

\* Feedback.h 152-177 and 303-361: measurements that end at the same time are all
\* counted: the running mean and the sum of squares are those of every measurement, the
\* circular buffer holds the last ones.
EveryRunCounts == IF IsTotal THEN TotalCounts ELSE RecentCounts

\* Feedback.h 207-231 and 363-386: what is read after updateStats() covers every
\* measurement that had ended when it began, whatever is measured or, for a
\* TotalExecutionTime, updated meanwhile.  A good answer takes more than MinTrials of them,
\* as in the code (230 and 369); it is about when an answer is from, for any MinTrials.
FreshAnswers == IF IsTotal THEN TotalFresh ELSE RecentFresh

\* Feedback.h 315-320: the deployed time of a TotalExecutionTime only falls when it is
\* reset, even when the sum wraps around.
OnlyResetLowers ==
  [][IsTotal /\ deployedTime' < deployedTime => deployedTime' = 0 /\ sinceReset' = 0]_vars

\* Feedback.h 266-267 and 179-181: "this lock protects all fields of this object": after a
\* reset, the deployed time holds no time from before it.
ResetHolds == lock = "free" => deployedTime <= sinceReset

\* Feedback.h 172 and 180: the atomic addition of the circular buffer loses no reset.
RecentResets == ~IsTotal => ResetHolds

\* Feedback.cpp 91: "saw bogus sample time!": every time that is averaged was measured.
NoBogusSample == SamplesWritten
=============================================================================
